---- MODULE Spec2Model ----
(***************************************************************************)
(* Model of the migration engine of the Odoo 17 EE -> CE migration tool:   *)
(*   - lib/migration/executor.ts   (src/unnamed/part_010): step planner    *)
(*     and transactional executor;                                         *)
(*   - lib/migration/table-comparator.ts (lines 1-293): the comparator;    *)
(*   - lib/migration/exporter.ts (table-comparator.ts lines 295-724): the  *)
(*     resumable export subsystem.                                         *)
(* Each subsystem has its own specification (SpecExec, SpecCompare,        *)
(* SpecExport); the variables of the other subsystems stay at their        *)
(* initial values.                                                         *)
(***************************************************************************)
EXTENDS Integers, Sequences, FiniteSets, TLC

VARIABLES
    \* ---- executor (executeMigration) ----
    xpc,            \* position of executeMigration
    xAnalysis,      \* the job's stored AnalysisResult
    xDryRun,        \* the dryRun argument of the current call
    xSteps,         \* const steps = await generateMigrationSteps(...)
    xIdx,           \* index of the for-loop over steps (1-based)
    xResult,        \* the MigrationResult being built / returned
    xServer,        \* what the staging server answers in this run (rowCount, elapsed ms)
    xRuns,          \* number of executeMigration calls made so far
    stagingDb,      \* committed state of the staging database: statements applied
    txnDb,          \* state seen inside the open transaction
    inTxn,          \* a transaction is open on the client
    dbAtStart,      \* stagingDb when the current call started
    sent,           \* statements sent to the staging connection by the current call
    stepsLog,       \* rows of migration_steps_log (config database)
    \* ---- comparator (compareTablesBetweenDatabases) ----
    cpc,            \* position of the comparator pass
    cIdx,           \* index of the for-loop over sourceTables
    cLast,          \* what is true of the table just probed (source, target, failing query)
    cProbed,        \* for each table whose iteration is over: populated? did its probe throw?
    tableDetails,   \* const tableDetails: TableComparisonDetail[]
    counters,       \* tablesWithData, tablesMissingInTarget, ...
    \* ---- exporter (exportAllModules / exportModule) ----
    epc,            \* position of the export run
    eRuns,          \* number of exportAllModules calls made so far
    srcTables,      \* source database: table name -> row count, or Absent
    ckpt,           \* export_checkpoints rows of the job: module -> row, or NoRow
    eSnapshot,      \* const checkpoints = await getExportCheckpoints(jobId)
    eLoop,          \* index of the for-loop over the snapshot
    eTable,         \* index of the for-loop over moduleConfig.tables
    eCount,         \* const count = await getTableCount(...)
    eOffset,        \* let offset
    eTotal,         \* let totalRecords
    eRecords,       \* const records: the batches collected for the current table
    eData,          \* exportData: table name -> the batches collected for it
    eFile,          \* finalPath and finalSize of the artifact just written
    eError,         \* the error being thrown out of exportModule ("" when none)
    eDoneAtStart,   \* modules whose checkpoint was completed when the current run was called
    eAttempted,     \* modules the current run has started to export
    eFaults,        \* number of injected query / I/O errors so far
    ckptWrites,     \* records_exported values written by the current exportModule call
    srcReads,       \* source-database queries sent by the current run, per module
    lastThrown,     \* error with which the last exportAllModules call rejected
    artifacts,      \* the artifact files written so far
    \* ---- record compatibility analyzer (analyzeRecordCompatibility) ----
    apc,                     \* position of the analysis
    aIdx,                    \* index of the for-loop being run
    aLast,                   \* what is true of the table just analyzed
    aThrown,                 \* for each analyzed table: the query that made its analysis throw
    compatibleDiffTables,    \* const compatibleDiffTables: RecordCompatibilityResult[]
    incompatibleDiffTables,  \* const incompatibleDiffTables: RecordCompatibilityResult[]
    summary,                 \* the summary returned (NoSummary until the return)
    \* ---- job record (routes /api/analyze, /api/export, /api/migrate, /api/validate) ----
    jobStatus,      \* migration_jobs.status of the job ("none": the row does not exist yet)
    hasAnalysis,    \* the job has a row in analysis_results
    phase,          \* per route: position of its request for the job, and when it started
    statusBy,       \* start number of the phase whose write set the current jobStatus
    validationResult, \* overall_status that validateMigration returned to the route
    \* ---- connections (credential-manager.ts, connection.ts) ----
    dbConnections,  \* rows of database_connections, by id (NoConn: no row)
    savedPassword,  \* the password handed to the last saveConnection of each id
    odooPools,      \* const odooPools = new Map<string, Pool>()
    lastLoad,       \* outcome of the last getConnectionConfig call
    \* ---- validator (validateMigration, getValidationResults) ----
    vpc,            \* position of validateMigration
    vStaging,       \* what each check's query finds in the staging database
    vFailed,        \* indexes of the checks whose query rejected in the current run
    vFaults,        \* number of query errors injected over all runs
    vRuns,          \* number of validateMigration calls made so far
    checks,         \* const checks: ValidationCheck[] of the current run
    validationRows, \* rows of validation_results of the job, in id order
    vResult,        \* the ValidationResult returned by the last completed run
    vGot,           \* what the last getValidationResults call returned
    \* ---- two exportAllModules calls of one job at the same time ----
    opc,            \* position of each of the two calls
    oRow,           \* the export_checkpoints row of the (job, module) they share
    oCount,         \* rows of the module's table in the source
    oOffset,        \* `offset` of each call's paging loop
    oFaults,        \* number of injected query / I/O failures so far
    \* ---- per-column data-loss analysis (GET of app/api/analyze) ----
    lpc,            \* position of the GET handler
    lIdx,           \* index of the for-loop over incompatibleTables (1-based)
    lResults,       \* const results: FieldDataLossAnalysis[]
    lThrown,        \* tables of the request one of whose queries rejected
    lResponse       \* the response of the last request

execVars == << xpc, xAnalysis, xDryRun, xSteps, xIdx, xResult, xServer, xRuns,
               stagingDb, txnDb, inTxn, dbAtStart, sent, stepsLog >>
cmpVars  == << cpc, cIdx, cLast, cProbed, tableDetails, counters >>
expVars  == << epc, eRuns, srcTables, ckpt, eSnapshot, eLoop, eTable, eCount,
               eOffset, eTotal, eRecords, eData, eFile, eError, eDoneAtStart, eAttempted,
               eFaults, ckptWrites, srcReads, lastThrown, artifacts >>
anaVars  == << apc, aIdx, aLast, aThrown, compatibleDiffTables, incompatibleDiffTables, summary >>
jobVars  == << jobStatus, hasAnalysis, phase, statusBy, validationResult >>
connVars == << dbConnections, savedPassword, odooPools, lastLoad >>
valVars  == << vpc, vStaging, vFailed, vFaults, vRuns, checks, validationRows, vResult, vGot >>
ovlVars  == << opc, oRow, oCount, oOffset, oFaults >>
lossVars == << lpc, lIdx, lResults, lThrown, lResponse >>
vars == << execVars, cmpVars, expVars, anaVars, jobVars, connVars, valVars, ovlVars, lossVars >>

\* ------------------------------------------------------------------------
\* Generic helpers
\* ------------------------------------------------------------------------
Range(s) == { s[i] : i \in 1..Len(s) }

\* Array.prototype.includes
Includes(s, x) == x \in Range(s)

\* JavaScript's undefined, for the optional numeric fields of MigrationStep.
Undefined == 0 - 1

\* `x || 0` on an optional number.
OrZero(x) == IF x = Undefined THEN 0 ELSE x

\* ========================================================================
\* Step planner and transactional executor (lib/migration/executor.ts)
\* ========================================================================

\* Number of executeMigration calls explored for the job.
MaxRuns == 2

\* Inputs: the lists found by the analysis.  helpdesk_ticket.team_id points
\* to the EE table helpdesk_team, helpdesk_ticket.partner_id to the CE table
\* res_partner.
FkTeam    == [table_name |-> "helpdesk_ticket", constraint_name |-> "helpdesk_ticket_team_id_fkey",
              foreign_table_name |-> "helpdesk_team"]
FkPartner == [table_name |-> "helpdesk_ticket", constraint_name |-> "helpdesk_ticket_partner_id_fkey",
              foreign_table_name |-> "res_partner"]
EEModuleLists == { <<>>, <<"helpdesk">> }
EETableLists  == { <<>>, <<"helpdesk_team">>, <<"helpdesk_team", "helpdesk_ticket">> }
FKLists       == { <<>>, <<FkPartner, FkTeam>> }
AnalysisResults ==
    [ ee_modules_found : EEModuleLists,
      ee_tables_found : EETableLists,
      foreign_key_dependencies : FKLists ]

\* What the staging server reports for a statement that succeeds.
ServerAnswers == { [rowCount |-> 0, elapsed |-> 0], [rowCount |-> 3, elapsed |-> 7] }

\* A statement, kept as its fixed text and the list of names interpolated in it.
Sql(text, names) == [text |-> text, names |-> names]

\* A push that puts the new step in front of the plan (steps.unshift).
PushStepUnshift(steps, name, sql) ==
    << [ step_number |-> Len(steps) + 1,
         step_name |-> name,
         sql_executed |-> sql,
         rows_affected |-> Undefined,
         execution_time_ms |-> Undefined ] >> \o steps

\* steps.push({ step_number: stepNumber++, step_name, sql_executed });
\* stepNumber starts at 1 and grows with every push, so it is Len(steps) + 1.
PushStep(steps, name, sql) ==
    Append(steps, [ step_number |-> Len(steps) + 1,
                    step_name |-> name,
                    sql_executed |-> sql,
                    rows_affected |-> Undefined,
                    execution_time_ms |-> Undefined ])

PushStepIf(cond, steps, name, sql) ==
    IF cond THEN PushStep(steps, name, sql) ELSE steps

\* A loop that tests the owning table instead of the referenced one.
RECURSIVE PushFkStepsByOwner(_, _, _)
PushFkStepsByOwner(steps, fks, eeTableList) ==
    IF fks = <<>> THEN steps
    ELSE LET fk == Head(fks) IN
         PushFkStepsByOwner(
            PushStepIf(Includes(eeTableList, fk.table_name), steps,
                       "Drop FK constraint",
                       Sql("ALTER TABLE DROP CONSTRAINT", <<fk.table_name, fk.constraint_name>>)),
            Tail(fks), eeTableList)

\* for (const fk of foreign_key_dependencies) if (eeTableList.includes(fk.foreign_table_name)) push
RECURSIVE PushFkSteps(_, _, _)
PushFkSteps(steps, fks, eeTableList) ==
    IF fks = <<>> THEN steps
    ELSE LET fk == Head(fks) IN
         PushFkSteps(
            PushStepIf(Includes(eeTableList, fk.foreign_table_name), steps,
                       "Drop FK constraint",
                       Sql("ALTER TABLE DROP CONSTRAINT", <<fk.table_name, fk.constraint_name>>)),
            Tail(fks), eeTableList)

\* for (const table of tablesToDrop) push
RECURSIVE PushDropTableSteps(_, _)
PushDropTableSteps(steps, tables) ==
    IF tables = <<>> THEN steps
    ELSE PushDropTableSteps(
            PushStep(steps, "Drop table", Sql("DROP TABLE", <<Head(tables)>>)),
            Tail(tables))

generateMigrationSteps(analysisResult) ==
    LET eeModuleList == analysisResult.ee_modules_found
        eeTableList  == analysisResult.ee_tables_found
        hasModules   == Len(eeModuleList) > 0
        s1  == PushStepIf(hasModules, <<>>, "Disable Enterprise Edition cron jobs",
                          Sql("UPDATE ir_cron", eeModuleList))
        s2  == PushStepIf(hasModules, s1, "Disable Enterprise Edition automated actions",
                          Sql("UPDATE base_automation", eeModuleList))
        s3  == PushStepIf(hasModules, s2, "Mark Enterprise modules as uninstalled",
                          Sql("UPDATE ir_module_module", eeModuleList))
        s4  == PushStepIf(hasModules, s3, "Remove Enterprise module dependencies",
                          Sql("DELETE FROM ir_module_module_dependency", eeModuleList))
        s5  == PushStep(s4, "Remove Enterprise Edition views",
                          Sql("DELETE FROM ir_ui_view", <<>>))
        s6  == PushStepIf(Len(eeTableList) > 0, s5, "Remove Enterprise Edition menu items",
                          Sql("DELETE FROM ir_ui_menu", <<>>))
        s7  == PushStep(s6, "Remove Enterprise Edition actions",
                          Sql("DELETE FROM ir_actions_act_window", <<>>))
        s8  == PushFkSteps(s7, analysisResult.foreign_key_dependencies, eeTableList)
        s9  == PushDropTableSteps(s8, eeTableList)
        s10 == PushStep(s9, "Clean ir_model_data for removed tables",
                          Sql("DELETE FROM ir_model_data", eeTableList))
        s11 == PushStepIf(hasModules, s10, "Remove Enterprise Edition models",
                          Sql("DELETE FROM ir_model", eeModuleList))
        s12 == PushStep(s11, "Vacuum and analyze database", Sql("VACUUM ANALYZE", <<>>))
    IN  s12

\* executeStep(client, step, dryRun): what it returns, given whether the
\* statement is sent and what the server answers.
executeStep(dryRun, answer) ==
    IF dryRun
    THEN [rows_affected |-> 0, execution_time_ms |-> 0]
    ELSE [rows_affected |-> OrZero(answer.rowCount), execution_time_ms |-> answer.elapsed]

\* A log row that leaves the error text out.
LogRowNoError(step, status, error) ==
    [ step_number |-> step.step_number,
      status |-> status,
      rows_affected |-> OrZero(step.rows_affected),
      execution_time_ms |-> OrZero(step.execution_time_ms),
      error_message |-> "" ]

\* The row logMigrationStep inserts into migration_steps_log.
LogRow(step, status, error) ==
    [ step_number |-> step.step_number,
      status |-> status,
      rows_affected |-> OrZero(step.rows_affected),
      execution_time_ms |-> OrZero(step.execution_time_ms),
      error_message |-> error ]

\* An entry of `sent`: one statement on the staging connection.
Stmt(kind, step, ok) == [kind |-> kind, step |-> step, ok |-> ok]

\* result.errors.push(`Step ${n} failed: ${msg}`) and result.errors.push(msg)
StepError(n, msg) == [step |-> n, msg |-> msg]
PlainError(msg)   == [step |-> 0, msg |-> msg]

\* A rollback that keeps what the transaction did.
AfterRollbackKeepsChanges(committed, inTransaction) == inTransaction

\* The staging database after ROLLBACK: the transaction's changes are dropped.
AfterRollback(committed, inTransaction) == committed

\* The staging database after COMMIT.
AfterCommit(committed, inTransaction) == inTransaction

\* Where the for-loop goes once step number idx has been handled.
LoopHead(steps, idx) == IF idx <= Len(steps) THEN "logRunning" ELSE "commit"

InitExecVars ==
    /\ xpc = "idle"
    /\ xDryRun = FALSE
    /\ xSteps = <<>>
    /\ xIdx = 0
    /\ xResult = [success |-> FALSE, steps |-> <<>>, errors |-> <<>>, dry_run |-> FALSE]
    /\ xServer = [rowCount |-> 0, elapsed |-> 0]
    /\ xRuns = 0
    /\ stagingDb = <<>>
    /\ txnDb = <<>>
    /\ inTxn = FALSE
    /\ dbAtStart = <<>>
    /\ sent = <<>>
    /\ stepsLog = <<>>

\* executeMigration(jobId, stagingConnectionId, analysisResult, dryRun): entry,
\* the result object and `const steps = await generateMigrationSteps(...)`.
ExecStart(dryRun) ==
    /\ xpc \in {"idle", "done"}
    /\ xRuns < MaxRuns
    /\ xRuns' = xRuns + 1
    /\ xDryRun' = dryRun
    /\ xResult' = [success |-> FALSE, steps |-> <<>>, errors |-> <<>>, dry_run |-> dryRun]
    /\ xSteps' = generateMigrationSteps(xAnalysis)
    /\ xIdx' = 0
    /\ dbAtStart' = stagingDb
    /\ sent' = <<>>
    /\ xpc' = "config"
    /\ UNCHANGED << xAnalysis, xServer, stagingDb, txnDb, inTxn, stepsLog >>

\* getConnectionConfig throws (connection row missing, config database down):
\* the outer catch records the error.
ExecConfigFails ==
    /\ xpc = "config"
    /\ xResult' = [xResult EXCEPT !.success = FALSE,
                                  !.errors = Append(@, PlainError("Connection not found"))]
    /\ xpc' = "done"
    /\ UNCHANGED << xAnalysis, xDryRun, xSteps, xIdx, xServer, xRuns, stagingDb, txnDb,
                    inTxn, dbAtStart, sent, stepsLog >>

\* A dry run that logs its first step as running.
ExecDryRunLogging ==
    /\ xpc = "config"
    /\ xDryRun
    /\ xResult' = [xResult EXCEPT !.steps = xSteps, !.success = TRUE]
    /\ stepsLog' = Append(stepsLog, LogRow(xSteps[1], "running", ""))
    /\ xpc' = "done"
    /\ UNCHANGED << xAnalysis, xDryRun, xSteps, xIdx, xServer, xRuns, stagingDb, txnDb,
                    inTxn, dbAtStart, sent >>

\* if (dryRun) { result.steps = steps; result.success = true; return result; }
ExecDryRun ==
    /\ xpc = "config"
    /\ xDryRun
    /\ xResult' = [xResult EXCEPT !.steps = xSteps, !.success = TRUE]
    /\ xpc' = "done"
    /\ UNCHANGED << xAnalysis, xDryRun, xSteps, xIdx, xServer, xRuns, stagingDb, txnDb,
                    inTxn, dbAtStart, sent, stepsLog >>

\* const client = await getClient(stagingPool): the connection is obtained ...
ExecConnect(answer) ==
    /\ xpc = "config"
    /\ ~xDryRun
    /\ xServer' = answer
    /\ xpc' = "begin"
    /\ UNCHANGED << xAnalysis, xDryRun, xSteps, xIdx, xResult, xRuns, stagingDb, txnDb,
                    inTxn, dbAtStart, sent, stepsLog >>

\* ... or pool.connect() rejects: the outer catch records the error.
ExecConnectFails ==
    /\ xpc = "config"
    /\ ~xDryRun
    /\ xResult' = [xResult EXCEPT !.success = FALSE,
                                  !.errors = Append(@, PlainError("connect failed"))]
    /\ xpc' = "done"
    /\ UNCHANGED << xAnalysis, xDryRun, xSteps, xIdx, xServer, xRuns, stagingDb, txnDb,
                    inTxn, dbAtStart, sent, stepsLog >>

\* A start of the loop that opens no transaction.
ExecBeginNotSent ==
    /\ xpc = "begin"
    /\ inTxn' = TRUE
    /\ txnDb' = stagingDb
    /\ xIdx' = 1
    /\ xpc' = LoopHead(xSteps, 1)
    /\ UNCHANGED << xAnalysis, xDryRun, xSteps, xResult, xServer, xRuns, stagingDb,
                    dbAtStart, stepsLog, sent >>

\* await client.query('BEGIN')
ExecBegin ==
    /\ xpc = "begin"
    /\ sent' = Append(sent, Stmt("BEGIN", 0, TRUE))
    /\ inTxn' = TRUE
    /\ txnDb' = stagingDb
    /\ xIdx' = 1
    /\ xpc' = LoopHead(xSteps, 1)
    /\ UNCHANGED << xAnalysis, xDryRun, xSteps, xResult, xServer, xRuns, stagingDb,
                    dbAtStart, stepsLog >>

\* await logMigrationStep(jobId, step, 'running')
ExecLogRunning ==
    /\ xpc = "logRunning"
    /\ stepsLog' = Append(stepsLog, LogRow(xSteps[xIdx], "running", ""))
    /\ xpc' = "executeStep"
    /\ UNCHANGED << xAnalysis, xDryRun, xSteps, xIdx, xResult, xServer, xRuns, stagingDb,
                    txnDb, inTxn, dbAtStart, sent >>

\* executeStep: client.query(step.sql_executed) succeeds;
\* step.rows_affected = ...; step.execution_time_ms = ...
ExecStepOk ==
    /\ xpc = "executeStep"
    /\ LET step == xSteps[xIdx]
           r    == executeStep(xDryRun, xServer)
       IN  /\ sent' = Append(sent, Stmt("STEP", step.step_number, TRUE))
           /\ txnDb' = Append(txnDb, step.sql_executed)
           /\ xSteps' = [xSteps EXCEPT ![xIdx].rows_affected = r.rows_affected,
                                       ![xIdx].execution_time_ms = r.execution_time_ms]
    /\ xpc' = "logCompleted"
    /\ UNCHANGED << xAnalysis, xDryRun, xIdx, xResult, xServer, xRuns, stagingDb, inTxn,
                    dbAtStart, stepsLog >>

\* executeStep: client.query(step.sql_executed) rejects; catch (stepError):
\* result.errors.push(`Step ${step.step_number} failed: ${errorMessage}`)
ExecStepFails ==
    /\ xpc = "executeStep"
    /\ LET step == xSteps[xIdx] IN
           /\ sent' = Append(sent, Stmt("STEP", step.step_number, FALSE))
           /\ xResult' = [xResult EXCEPT
                            !.errors = Append(@, StepError(step.step_number, "statement failed"))]
    /\ xpc' = "logFailed"
    /\ UNCHANGED << xAnalysis, xDryRun, xSteps, xIdx, xServer, xRuns, stagingDb, txnDb,
                    inTxn, dbAtStart, stepsLog >>

\* await logMigrationStep(jobId, step, 'completed'); result.steps.push(step);
ExecLogCompleted ==
    /\ xpc = "logCompleted"
    /\ stepsLog' = Append(stepsLog, LogRow(xSteps[xIdx], "completed", ""))
    /\ xResult' = [xResult EXCEPT !.steps = Append(@, xSteps[xIdx])]
    /\ xIdx' = xIdx + 1
    /\ xpc' = LoopHead(xSteps, xIdx + 1)
    /\ UNCHANGED << xAnalysis, xDryRun, xSteps, xServer, xRuns, stagingDb, txnDb, inTxn,
                    dbAtStart, sent >>

\* await logMigrationStep(jobId, step, 'failed', errorMessage); throw stepError;
ExecLogFailed ==
    /\ xpc = "logFailed"
    /\ stepsLog' = Append(stepsLog, LogRow(xSteps[xIdx], "failed", "statement failed"))
    /\ xpc' = "rollback"
    /\ UNCHANGED << xAnalysis, xDryRun, xSteps, xIdx, xResult, xServer, xRuns, stagingDb,
                    txnDb, inTxn, dbAtStart, sent >>

\* await client.query('COMMIT'); result.success = true; finally client.release()
ExecCommit ==
    /\ xpc = "commit"
    /\ sent' = Append(sent, Stmt("COMMIT", 0, TRUE))
    /\ stagingDb' = AfterCommit(stagingDb, txnDb)
    /\ inTxn' = FALSE
    /\ txnDb' = <<>>
    /\ xResult' = [xResult EXCEPT !.success = TRUE]
    /\ xpc' = "done"
    /\ UNCHANGED << xAnalysis, xDryRun, xSteps, xIdx, xServer, xRuns, dbAtStart, stepsLog >>

\* await client.query('COMMIT') rejects: the inner catch takes over.
ExecCommitFails ==
    /\ xpc = "commit"
    /\ sent' = Append(sent, Stmt("COMMIT", 0, FALSE))
    /\ xpc' = "rollback"
    /\ UNCHANGED << xAnalysis, xDryRun, xSteps, xIdx, xResult, xServer, xRuns, stagingDb,
                    txnDb, inTxn, dbAtStart, stepsLog >>

\* catch (error) { await client.query('ROLLBACK'); throw error; } finally release;
\* outer catch: result.success = false; result.errors.push(error.message)
ExecRollback ==
    /\ xpc = "rollback"
    /\ sent' = Append(sent, Stmt("ROLLBACK", 0, TRUE))
    /\ stagingDb' = AfterRollback(stagingDb, txnDb)
    /\ inTxn' = FALSE
    /\ txnDb' = <<>>
    /\ xResult' = [xResult EXCEPT !.success = FALSE,
                                  !.errors = Append(@, PlainError("statement failed"))]
    /\ xpc' = "done"
    /\ UNCHANGED << xAnalysis, xDryRun, xSteps, xIdx, xServer, xRuns, dbAtStart, stepsLog >>

NextExecVars ==
    \/ \E dryRun \in BOOLEAN : ExecStart(dryRun)
    \/ ExecConfigFails
    \/ ExecDryRun
    \/ \E answer \in ServerAnswers : ExecConnect(answer)
    \/ ExecConnectFails
    \/ ExecBegin
    \/ ExecLogRunning
    \/ ExecStepOk
    \/ ExecStepFails
    \/ ExecLogCompleted
    \/ ExecLogFailed
    \/ ExecCommit
    \/ ExecCommitFails
    \/ ExecRollback

\* ========================================================================
\* Schema & record comparator (lib/migration/table-comparator.ts)
\* ========================================================================

\* Largest number of rows of a table.
MaxRows == 2

\* pg_tables of the source, ORDER BY tablename.
sourceTables == << "orders", "tags" >>

\* Column values: NULL or a value.
IdValues    == { "x" }
PromoValues == { "NULL", "x", "y" }
AllRows     == [ id : IdValues, promo_code : PromoValues ]

\* The column lists a table can have, in ordinal order.
ColumnLists == { <<"id">>, <<"id", "promo_code">> }

\* The rows a table with these columns can hold (a column the table does not
\* have reads as NULL).
RowsFor(cols) == { r \in AllRows : Includes(cols, "promo_code") \/ r.promo_code = "NULL" }

RECURSIVE SumOver(_, _)
SumOver(f, S) ==
    IF S = {} THEN 0
    ELSE LET x == CHOOSE y \in S : TRUE IN f[x] + SumOver(f, S \ {x})

\* A table's content is a multiset of rows: row -> number of copies.
RowBags(cols) ==
    { b \in [AllRows -> 0..MaxRows] :
        /\ SumOver(b, AllRows) <= MaxRows
        /\ \A r \in AllRows : r \notin RowsFor(cols) => b[r] = 0 }

ExistingTables ==
    UNION { { [exists |-> TRUE, cols |-> cs, rows |-> b] : b \in RowBags(cs) } : cs \in ColumnLists }
AbsentTable == [exists |-> FALSE, cols |-> <<>>, rows |-> [r \in AllRows |-> 0]]
SourceContents == ExistingTables
TargetContents == ExistingTables \cup { AbsentTable }

\* The query of one table's probe that fails, if any.
ProbeFailures ==
    { "none", "sourceCount", "tableExists", "targetCount",
      "sourceColumns", "nonNullProbe", "targetColumns" }

\* SELECT COUNT(*) FROM "t"
RowCount(table) == SumOver(table.rows, AllRows)

\* COUNT("col") > 0
HasData(table, col) == \E r \in AllRows : table.rows[r] > 0 /\ r[col] # "NULL"

\* getTableColumns: information_schema.columns ORDER BY ordinal_position.
getTableColumns(table) == table.cols

\* A probe that reports every column, null-only ones included.
getNonNullColumnsAll(table, probeFails) == getTableColumns(table)

\* getNonNullColumns: every column when the probing query fails.
getNonNullColumns(table, probeFails) ==
    LET columns == getTableColumns(table)
        Test(c) == HasData(table, c)
    IN  IF Len(columns) = 0 THEN <<>>
        ELSE IF probeFails THEN columns
        ELSE SelectSeq(columns, Test)

\* tableExists(pool, tableName)
tableExists(table) == table.exists

\* getRecordCount: 0 when the query fails.
getRecordCount(table, queryFails) ==
    IF queryFails \/ ~table.exists THEN 0 ELSE RowCount(table)

\* checkSchemaCompatibility(sourcePool, targetPool, tableName)
checkSchemaCompatibility(src, tgt, probeFails) ==
    LET sourceNonNullColumns == getNonNullColumns(src, probeFails)
        sourceAllColumnNames == getTableColumns(src)
        targetColumnNames    == getTableColumns(tgt)
        IsNullOnly(c) == ~Includes(sourceNonNullColumns, c)
        IsMissing(c)  == ~Includes(targetColumnNames, c)
        missingColumns == SelectSeq(sourceNonNullColumns, IsMissing)
    IN  [ compatible |-> Len(missingColumns) = 0,
          missingColumns |-> missingColumns,
          nullOnlyColumns |-> SelectSeq(sourceAllColumnNames, IsNullOnly) ]

\* A comparison that also accepts a larger target.
SameCountOrMore(sourceCount, targetCount) == sourceCount <= targetCount

\* if (sourceCount === targetCount)
SameCount(sourceCount, targetCount) == sourceCount = targetCount

\* A skip test that also drops tables with a single row.
IsEmptyOrSingle(sourceCount) == sourceCount <= 1

\* if (sourceCount === 0) continue;
IsEmpty(sourceCount) == sourceCount = 0

\* One iteration of the for-loop over sourceTables: which counters grow, the
\* detail pushed (a sequence of 0 or 1 details) and whether the try block threw.
CompareOne(tableName, src, tgt, fail) ==
    LET sourceCount == getRecordCount(src, fail = "sourceCount")
        targetCount == getRecordCount(tgt, fail = "targetCount")
        compatibility == checkSchemaCompatibility(src, tgt, fail = "nonNullProbe")
        Out(counted, threw, category, detail) ==
            [counted |-> counted, threw |-> threw, category |-> category, detail |-> detail]
    IN  IF IsEmpty(sourceCount) THEN Out(FALSE, FALSE, "none", <<>>)
        ELSE IF fail = "tableExists" THEN Out(TRUE, TRUE, "none", <<>>)
        ELSE IF ~tableExists(tgt) THEN
            Out(TRUE, FALSE, "missing_in_target",
                << [ tableName |-> tableName, category |-> "missing_in_target",
                     sourceRecordCount |-> sourceCount ] >>)
        ELSE IF SameCount(sourceCount, targetCount) THEN
            Out(TRUE, FALSE, "identical_records",
                << [ tableName |-> tableName, category |-> "identical_records",
                     sourceRecordCount |-> sourceCount, targetRecordCount |-> targetCount ] >>)
        ELSE IF fail \in {"sourceColumns", "targetColumns"} THEN Out(TRUE, TRUE, "none", <<>>)
        ELSE IF compatibility.compatible THEN
            Out(TRUE, FALSE, "compatible_diff",
                << [ tableName |-> tableName, category |-> "compatible_diff",
                     sourceRecordCount |-> sourceCount, targetRecordCount |-> targetCount,
                     missingColumns |-> <<>>,
                     nullOnlyColumns |-> compatibility.nullOnlyColumns ] >>)
        ELSE
            Out(TRUE, FALSE, "incompatible_diff",
                << [ tableName |-> tableName, category |-> "incompatible_diff",
                     sourceRecordCount |-> sourceCount, targetRecordCount |-> targetCount,
                     missingColumns |-> compatibility.missingColumns,
                     nullOnlyColumns |-> compatibility.nullOnlyColumns ] >>)

ZeroCounters ==
    [ tablesWithData |-> 0, tablesMissingInTarget |-> 0, tablesWithIdenticalRecords |-> 0,
      tablesWithCompatibleDiff |-> 0, tablesWithIncompatibleDiff |-> 0 ]

Bump(c, field, cond) == IF cond THEN c[field] + 1 ELSE c[field]

\* The counters after one iteration with outcome o.
CountOutcome(c, o) ==
    [ tablesWithData |-> Bump(c, "tablesWithData", o.counted),
      tablesMissingInTarget |-> Bump(c, "tablesMissingInTarget", o.category = "missing_in_target"),
      tablesWithIdenticalRecords |->
          Bump(c, "tablesWithIdenticalRecords", o.category = "identical_records"),
      tablesWithCompatibleDiff |->
          Bump(c, "tablesWithCompatibleDiff", o.category = "compatible_diff"),
      tablesWithIncompatibleDiff |->
          Bump(c, "tablesWithIncompatibleDiff", o.category = "incompatible_diff") ]

\* The multiset of the rows of a table projected on a set of columns.
Projection(table, colSet) ==
    [ p \in [colSet -> IdValues \cup PromoValues] |->
        SumOver([r \in AllRows |-> IF \A c \in colSet : r[c] = p[c] THEN table.rows[r] ELSE 0],
                AllRows) ]

\* What is true of a probed table, whatever the pass made of it: its row
\* counts, the source columns absent from the target (all of them, and those
\* holding a non-null value), and whether the two tables hold the same rows
\* on the source's non-null columns.
Facts(tableName, src, tgt, fail, threw) ==
    LET nonNull == { c \in Range(src.cols) : HasData(src, c) } IN
    [ tableName |-> tableName,
      fail |-> fail,
      threw |-> threw,
      sourceRows |-> RowCount(src),
      inTarget |-> tgt.exists,
      targetRows |-> RowCount(tgt),
      missingAll |-> Range(src.cols) \ Range(tgt.cols),
      missingNonNull |-> nonNull \ Range(tgt.cols),
      rowsMatch |-> /\ tgt.exists
                    /\ nonNull \subseteq Range(tgt.cols)
                    /\ Projection(src, nonNull) = Projection(tgt, nonNull) ]

NoFacts == [tableName |-> "none"]

\* What is kept of the facts once the loop has moved on.
Summary(facts) ==
    [ tableName |-> facts.tableName,
      populated |-> facts.sourceRows >= 1,
      fail |-> facts.fail,
      threw |-> facts.threw ]

InitCmpVars ==
    /\ cpc = "idle"
    /\ cIdx = 0
    /\ cLast = NoFacts
    /\ cProbed = <<>>
    /\ tableDetails = <<>>
    /\ counters = ZeroCounters

\* compareTablesBetweenDatabases: the pg_tables query and the zeroed counters.
CmpStart ==
    /\ cpc \in {"idle", "done"}
    /\ cpc' = "loop"
    /\ cIdx' = 1
    /\ cLast' = NoFacts
    /\ cProbed' = <<>>
    /\ tableDetails' = <<>>
    /\ counters' = ZeroCounters

\* for (const table of sourceTables) { try { ... } catch (error) { console.error } }
\* The body of one iteration, on a table with this content and this failing query.
CmpTable(src, tgt, fail) ==
    /\ cpc = "loop"
    /\ cIdx <= Len(sourceTables)
    /\ LET o == CompareOne(sourceTables[cIdx], src, tgt, fail) IN
           /\ tableDetails' = tableDetails \o o.detail
           /\ counters' = CountOutcome(counters, o)
           /\ cLast' = Facts(sourceTables[cIdx], src, tgt, fail, o.threw)
    /\ cpc' = "probed"
    /\ UNCHANGED << cIdx, cProbed >>

\* The loop moves on to the next table.
CmpAdvance ==
    /\ cpc = "probed"
    /\ cProbed' = Append(cProbed, Summary(cLast))
    /\ cLast' = NoFacts
    /\ cIdx' = cIdx + 1
    /\ cpc' = "loop"
    /\ UNCHANGED << tableDetails, counters >>

\* return { tablesWithData, ..., tableDetails }
CmpReturn ==
    /\ cpc = "loop"
    /\ cIdx > Len(sourceTables)
    /\ cpc' = "done"
    /\ UNCHANGED << cIdx, cLast, cProbed, tableDetails, counters >>

NextCmpVars ==
    \/ CmpStart
    \/ \E src \in SourceContents, tgt \in TargetContents, fail \in ProbeFailures :
          CmpTable(src, tgt, fail)
    \/ CmpAdvance
    \/ CmpReturn

\* ========================================================================
\* Resumable export subsystem (lib/migration/exporter.ts)
\* ========================================================================

\* Number of exportAllModules calls explored for the job.
MaxExportRuns == 2

\* Number of query / I/O errors injected over all runs.
MaxFaults == 2

BATCH_SIZE == 1000
COMPRESSION_THRESHOLD_MB == 1

\* Two of the ten entries of EXPORT_MODULES, in checkpoint-id order.
EXPORT_MODULES ==
    << [moduleName |-> "iot",  tables |-> <<"iot_box", "iot_device">>],
       [moduleName |-> "voip", tables |-> <<"voip_configurator", "voip_phonecall">>] >>

ModuleNames  == { EXPORT_MODULES[i].moduleName : i \in 1..Len(EXPORT_MODULES) }
ExportTables == UNION { Range(EXPORT_MODULES[i].tables) : i \in 1..Len(EXPORT_MODULES) }

\* EXPORT_MODULES.find((m) => m.moduleName === name)
ModuleConfig(name) ==
    EXPORT_MODULES[CHOOSE i \in 1..Len(EXPORT_MODULES) : EXPORT_MODULES[i].moduleName = name]

\* A source table is absent or holds this many rows.
Absent == 0 - 1
TableStates == { Absent, 0, 500, 2500 }

\* SQL NULL in a text column, and in file_path.
Null   == "null"
NoPath == <<>>
NoRow  == [status |-> "none"]

\* The sizes JSON.stringify can give the module's document: just below the
\* threshold, at it and just above it.
ThresholdBytes == COMPRESSION_THRESHOLD_MB * 1024 * 1024
JsonSizes == { ThresholdBytes - 1, ThresholdBytes, ThresholdBytes + 1 }

\* fs.statSync(finalPath).size of the gzip file.
GzipSize(jsonSize) == jsonSize \div 8

\* An insert that overwrites an existing row (ON CONFLICT DO UPDATE).
InitCheckpointRowReset(existing) ==
    [ status |-> "pending", records_exported |-> 0, total_records |-> 0,
      file_path |-> NoPath, file_size_bytes |-> 0, error_message |-> Null ]

\* INSERT ... VALUES (job, module, 'pending') ON CONFLICT (job_id, module_name) DO NOTHING
InitCheckpointRow(existing) ==
    IF existing = NoRow
    THEN [ status |-> "pending", records_exported |-> 0, total_records |-> 0,
           file_path |-> NoPath, file_size_bytes |-> 0, error_message |-> Null ]
    ELSE existing

\* if (checkpoint.status !== 'completed') in exportAllModules
NeedsExport(status) == status # "completed"

\* if (checkpoint.status === 'completed') return; in exportModule
AlreadyCompleted(status) == status = "completed"

\* updateExportCheckpoint(id, { status: 'in_progress', started_at })
MarkInProgress(row) == [row EXCEPT !.status = "in_progress"]

\* updateExportCheckpoint(id, { records_exported: offset, total_records: totalRecords })
Progress(row, offset, totalRecords) ==
    [row EXCEPT !.records_exported = offset, !.total_records = totalRecords]

\* A completion update that stores the file and the counters but not the status.
MarkCompletedNoStatus(row, finalPath, finalSize, totalRecords) ==
    [row EXCEPT !.file_path = finalPath,
                !.file_size_bytes = finalSize, !.total_records = totalRecords,
                !.records_exported = totalRecords]

\* updateExportCheckpoint(id, { status: 'completed', file_path, file_size_bytes, ... })
MarkCompleted(row, finalPath, finalSize, totalRecords) ==
    [row EXCEPT !.status = "completed", !.file_path = finalPath,
                !.file_size_bytes = finalSize, !.total_records = totalRecords,
                !.records_exported = totalRecords]

\* A failure update that also zeroes the progress counters.
MarkFailedReset(row, message) ==
    [row EXCEPT !.status = "failed", !.error_message = message,
                !.records_exported = 0, !.total_records = 0]

\* updateExportCheckpoint(id, { status: 'failed', error_message })
MarkFailed(row, message) == [row EXCEPT !.status = "failed", !.error_message = message]

\* A start that resumes at the progress stored in the checkpoint.
StartOffsetResumed(checkpoint) == checkpoint.records_exported

\* let offset = 0;
StartOffset(checkpoint) == 0

\* A step that leaves one row out between two batches.
NextOffsetSkipping(offset) == offset + BATCH_SIZE + 1

\* offset += BATCH_SIZE
NextOffset(offset) == offset + BATCH_SIZE

\* SELECT * ... ORDER BY key LIMIT BATCH_SIZE OFFSET offset: the rows at
\* positions lo..hi of the table in sort-key order.
Batch(count, offset) ==
    [lo |-> offset + 1, hi |-> IF offset + BATCH_SIZE < count THEN offset + BATCH_SIZE ELSE count]

\* A test that compresses documents below the threshold instead.
shouldCompressBelow(jsonSize) == jsonSize < COMPRESSION_THRESHOLD_MB * 1024 * 1024

\* const shouldCompress = jsonSize > COMPRESSION_THRESHOLD_MB * 1024 * 1024
shouldCompress(jsonSize) == jsonSize > COMPRESSION_THRESHOLD_MB * 1024 * 1024

\* `${moduleName}_${timestamp}.json`, with '.gz' appended when compressed; each
\* run has its own timestamp.
FilePath(moduleName, run, compressed) ==
    << moduleName, run, IF compressed THEN ".json.gz" ELSE ".json" >>

\* The module the for-loop of exportAllModules is at, and its current table.
CurModule == eSnapshot[eLoop].module_name
CurTables == ModuleConfig(CurModule).tables
CurTable  == CurTables[eTable]

\* Head of `for (const tableConfig of moduleConfig.tables)`.
TableHead(tables, idx) == IF idx <= Len(tables) THEN "m_exists" ELSE "m_write"

\* Head of `while (offset < count)`.
WhileHead(offset, count) == IF offset < count THEN "m_batch" ELSE "m_tableDone"

CanFail == eFaults < MaxFaults

InitExpVars ==
    /\ epc = "idle"
    /\ eRuns = 0
    /\ ckpt = [m \in ModuleNames |-> NoRow]
    /\ eSnapshot = <<>>
    /\ eLoop = 0
    /\ eTable = 0
    /\ eCount = 0
    /\ eOffset = 0
    /\ eTotal = 0
    /\ eRecords = <<>>
    /\ eData = <<>>
    /\ eFile = [path |-> NoPath, size |-> 0]
    /\ eError = Null
    /\ eDoneAtStart = {}
    /\ eAttempted = {}
    /\ eFaults = 0
    /\ ckptWrites = <<>>
    /\ srcReads = [m \in ModuleNames |-> 0]
    /\ lastThrown = Null
    /\ artifacts = {}

\* exportAllModules(jobId, sourceConnectionId) is called.
ExpStart ==
    /\ epc \in {"idle", "done"}
    /\ eRuns < MaxExportRuns
    /\ eRuns' = eRuns + 1
    /\ eDoneAtStart' = { m \in ModuleNames : ckpt[m].status = "completed" }
    /\ eAttempted' = {}
    /\ srcReads' = [m \in ModuleNames |-> 0]
    /\ lastThrown' = Null
    /\ eSnapshot' = <<>>
    /\ eLoop' = 0
    /\ epc' = "init"
    /\ UNCHANGED << srcTables, ckpt, eTable, eCount, eOffset, eTotal,
                    eRecords, eData, eFile, eError, eFaults, ckptWrites, artifacts >>

\* await initializeExportCheckpoints(jobId)
ExpInitCheckpoints ==
    /\ epc = "init"
    /\ ckpt' = [m \in ModuleNames |-> InitCheckpointRow(ckpt[m])]
    /\ epc' = "list"
    /\ UNCHANGED << eRuns, srcTables, eSnapshot, eLoop, eTable, eCount, eOffset, eTotal,
                    eRecords, eData, eFile, eError, eDoneAtStart, eAttempted, eFaults,
                    ckptWrites, srcReads, lastThrown, artifacts >>

\* const checkpoints = await getExportCheckpoints(jobId)   (ORDER BY id)
ExpGetCheckpoints ==
    /\ epc = "list"
    /\ eSnapshot' = [i \in 1..Len(EXPORT_MODULES) |->
                       [module_name |-> EXPORT_MODULES[i].moduleName,
                        status |-> ckpt[EXPORT_MODULES[i].moduleName].status]]
    /\ eLoop' = 1
    /\ epc' = "loop"
    /\ UNCHANGED << eRuns, srcTables, ckpt, eTable, eCount, eOffset, eTotal, eRecords,
                    eData, eFile, eError, eDoneAtStart, eAttempted, eFaults, ckptWrites,
                    srcReads, lastThrown, artifacts >>

\* for (const checkpoint of checkpoints): a completed one is passed over
ExpLoopSkip ==
    /\ epc = "loop"
    /\ eLoop <= Len(eSnapshot)
    /\ ~NeedsExport(eSnapshot[eLoop].status)
    /\ eLoop' = eLoop + 1
    /\ UNCHANGED << epc, eRuns, srcTables, ckpt, eSnapshot, eTable, eCount, eOffset, eTotal,
                    eRecords, eData, eFile, eError, eDoneAtStart, eAttempted, eFaults,
                    ckptWrites, srcReads, lastThrown, artifacts >>

\* ... any other one is handed to exportModule
ExpLoopCall ==
    /\ epc = "loop"
    /\ eLoop <= Len(eSnapshot)
    /\ NeedsExport(eSnapshot[eLoop].status)
    /\ epc' = "m_read"
    /\ UNCHANGED << eRuns, srcTables, ckpt, eSnapshot, eLoop, eTable, eCount, eOffset,
                    eTotal, eRecords, eData, eFile, eError, eDoneAtStart, eAttempted,
                    eFaults, ckptWrites, srcReads, lastThrown, artifacts >>

\* the loop is over: exportAllModules resolves
ExpLoopEnd ==
    /\ epc = "loop"
    /\ eLoop > Len(eSnapshot)
    /\ epc' = "done"
    /\ lastThrown' = Null
    /\ UNCHANGED << eRuns, srcTables, ckpt, eSnapshot, eLoop, eTable, eCount, eOffset,
                    eTotal, eRecords, eData, eFile, eError, eDoneAtStart, eAttempted,
                    eFaults, ckptWrites, srcReads, artifacts >>

\* exportModule: read the checkpoint; return if it is completed
ExpReadCheckpoint ==
    /\ epc = "m_read"
    /\ IF AlreadyCompleted(ckpt[CurModule].status)
       THEN /\ epc' = "loop"
            /\ eLoop' = eLoop + 1
       ELSE /\ epc' = "m_mark"
            /\ eLoop' = eLoop
    /\ UNCHANGED << eRuns, srcTables, ckpt, eSnapshot, eTable, eCount, eOffset, eTotal,
                    eRecords, eData, eFile, eError, eDoneAtStart, eAttempted, eFaults,
                    ckptWrites, srcReads, lastThrown, artifacts >>

\* exportModule: mark as in progress
ExpMarkInProgress ==
    /\ epc = "m_mark"
    /\ ckpt' = [ckpt EXCEPT ![CurModule] = MarkInProgress(@)]
    /\ eAttempted' = eAttempted \cup {CurModule}
    /\ ckptWrites' = <<>>
    /\ eError' = Null
    /\ epc' = "m_config"
    /\ UNCHANGED << eRuns, srcTables, eSnapshot, eLoop, eTable, eCount, eOffset, eTotal,
                    eRecords, eData, eFile, eDoneAtStart, eFaults, srcReads, lastThrown,
                    artifacts >>

\* try { getConnectionConfig; getOdooPool; exportData = {}; totalRecords = 0; for (...)
ExpGetSource(ok) ==
    /\ epc = "m_config"
    /\ ok \/ CanFail
    /\ IF ok
       THEN /\ eTable' = 1
            /\ eTotal' = 0
            /\ eData' = <<>>
            /\ epc' = TableHead(CurTables, 1)
            /\ UNCHANGED << eError, eFaults >>
       ELSE /\ eError' = "Connection not found"
            /\ eFaults' = eFaults + 1
            /\ epc' = "m_catch"
            /\ UNCHANGED << eTable, eTotal, eData >>
    /\ UNCHANGED << eRuns, srcTables, ckpt, eSnapshot, eLoop, eCount, eOffset, eRecords,
                    eFile, eDoneAtStart, eAttempted, ckptWrites, srcReads, lastThrown,
                    artifacts >>

\* An existence test whose answer is not looked at: a missing table is counted too.
ExpTableExistsCounting(ok) ==
    /\ epc = "m_exists"
    /\ ok \/ CanFail
    /\ srcReads' = [srcReads EXCEPT ![CurModule] = @ + 1]
    /\ IF ~ok
       THEN /\ eError' = "tableExists failed"
            /\ eFaults' = eFaults + 1
            /\ epc' = "m_catch"
            /\ UNCHANGED << eTable, eData >>
       ELSE IF srcTables[CurTable] = Absent
       THEN /\ epc' = "m_count"
            /\ UNCHANGED << eTable, eData, eError, eFaults >>
       ELSE /\ epc' = "m_count"
            /\ UNCHANGED << eTable, eData, eError, eFaults >>
    /\ UNCHANGED << eRuns, srcTables, ckpt, eSnapshot, eLoop, eCount, eOffset, eTotal,
                    eRecords, eFile, eDoneAtStart, eAttempted, ckptWrites, lastThrown,
                    artifacts >>

\* const exists = await tableExists(sourcePool, tableName);
\* if (!exists) { exportData[tableName] = []; continue; }
ExpTableExists(ok) ==
    /\ epc = "m_exists"
    /\ ok \/ CanFail
    /\ srcReads' = [srcReads EXCEPT ![CurModule] = @ + 1]
    /\ IF ~ok
       THEN /\ eError' = "tableExists failed"
            /\ eFaults' = eFaults + 1
            /\ epc' = "m_catch"
            /\ UNCHANGED << eTable, eData >>
       ELSE IF srcTables[CurTable] = Absent
       THEN /\ eData' = (CurTable :> <<>>) @@ eData
            /\ eTable' = eTable + 1
            /\ epc' = TableHead(CurTables, eTable + 1)
            /\ UNCHANGED << eError, eFaults >>
       ELSE /\ epc' = "m_count"
            /\ UNCHANGED << eTable, eData, eError, eFaults >>
    /\ UNCHANGED << eRuns, srcTables, ckpt, eSnapshot, eLoop, eCount, eOffset, eTotal,
                    eRecords, eFile, eDoneAtStart, eAttempted, ckptWrites, lastThrown,
                    artifacts >>

\* const count = await getTableCount(...); totalRecords += count;
\* const records = []; let offset = 0; while (offset < count)
ExpTableCount(ok) ==
    /\ epc = "m_count"
    /\ ok \/ CanFail
    /\ srcReads' = [srcReads EXCEPT ![CurModule] = @ + 1]
    /\ IF ok
       THEN /\ eCount' = srcTables[CurTable]
            /\ eTotal' = eTotal + srcTables[CurTable]
            /\ eRecords' = <<>>
            /\ eOffset' = StartOffset(ckpt[CurModule])
            /\ epc' = WhileHead(StartOffset(ckpt[CurModule]), srcTables[CurTable])
            /\ UNCHANGED << eError, eFaults >>
       ELSE /\ eError' = "count failed"
            /\ eFaults' = eFaults + 1
            /\ epc' = "m_catch"
            /\ UNCHANGED << eCount, eTotal, eRecords, eOffset >>
    /\ UNCHANGED << eRuns, srcTables, ckpt, eSnapshot, eLoop, eTable, eData, eFile,
                    eDoneAtStart, eAttempted, ckptWrites, lastThrown, artifacts >>

\* A batch read that also empties the table it read from (an export that moves rows).
ExpBatchMoving(ok) ==
    /\ epc = "m_batch"
    /\ ok \/ CanFail
    /\ srcReads' = [srcReads EXCEPT ![CurModule] = @ + 1]
    /\ IF ok
       THEN /\ eRecords' = Append(eRecords, Batch(eCount, eOffset))
            /\ eOffset' = NextOffset(eOffset)
            /\ epc' = "m_progress"
            /\ UNCHANGED << eError, eFaults >>
       ELSE /\ eError' = "batch query failed"
            /\ eFaults' = eFaults + 1
            /\ epc' = "m_catch"
            /\ UNCHANGED << eRecords, eOffset >>
    /\ srcTables' = IF ok THEN [srcTables EXCEPT ![CurTable] = 0] ELSE srcTables
    /\ UNCHANGED << eRuns, ckpt, eSnapshot, eLoop, eTable, eCount, eTotal,
                    eData, eFile, eDoneAtStart, eAttempted, ckptWrites, lastThrown,
                    artifacts >>

\* const batch = await executeQuery(... LIMIT $1 OFFSET $2);
\* records.push(...batch); offset += BATCH_SIZE;
ExpBatch(ok) ==
    /\ epc = "m_batch"
    /\ ok \/ CanFail
    /\ srcReads' = [srcReads EXCEPT ![CurModule] = @ + 1]
    /\ IF ok
       THEN /\ eRecords' = Append(eRecords, Batch(eCount, eOffset))
            /\ eOffset' = NextOffset(eOffset)
            /\ epc' = "m_progress"
            /\ UNCHANGED << eError, eFaults >>
       ELSE /\ eError' = "batch query failed"
            /\ eFaults' = eFaults + 1
            /\ epc' = "m_catch"
            /\ UNCHANGED << eRecords, eOffset >>
    /\ UNCHANGED << eRuns, srcTables, ckpt, eSnapshot, eLoop, eTable, eCount, eTotal,
                    eData, eFile, eDoneAtStart, eAttempted, ckptWrites, lastThrown,
                    artifacts >>

\* await updateExportCheckpoint(id, { records_exported: offset, total_records })
ExpProgress ==
    /\ epc = "m_progress"
    /\ ckpt' = [ckpt EXCEPT ![CurModule] = Progress(@, eOffset, eTotal)]
    /\ ckptWrites' = Append(ckptWrites, Progress(ckpt[CurModule], eOffset, eTotal).records_exported)
    /\ epc' = WhileHead(eOffset, eCount)
    /\ UNCHANGED << eRuns, srcTables, eSnapshot, eLoop, eTable, eCount, eOffset, eTotal,
                    eRecords, eData, eFile, eError, eDoneAtStart, eAttempted, eFaults,
                    srcReads, lastThrown, artifacts >>

\* the while loop is over: exportData[tableName] = records; next table
ExpTableDone ==
    /\ epc = "m_tableDone"
    /\ eData' = (CurTable :> eRecords) @@ eData
    /\ eTable' = eTable + 1
    /\ epc' = TableHead(CurTables, eTable + 1)
    /\ UNCHANGED << eRuns, srcTables, ckpt, eSnapshot, eLoop, eCount, eOffset, eTotal,
                    eRecords, eFile, eError, eDoneAtStart, eAttempted, eFaults, ckptWrites,
                    srcReads, lastThrown, artifacts >>

\* JSON.stringify; then the gzip pipeline or fs.writeFileSync
ExpWriteArtifact(ok, jsonSize) ==
    /\ epc = "m_write"
    /\ ok \/ CanFail
    /\ IF ok
       THEN LET compress  == shouldCompress(jsonSize)
                finalPath == FilePath(CurModule, eRuns, compress)
                finalSize == IF compress THEN GzipSize(jsonSize) ELSE jsonSize
            IN  /\ artifacts' = artifacts \cup
                      { [ path |-> finalPath, compressed |-> compress, jsonSize |-> jsonSize,
                          module |-> CurModule, total_records |-> eTotal, tables |-> eData ] }
                /\ eFile' = [path |-> finalPath, size |-> finalSize]
                /\ epc' = "m_complete"
                /\ UNCHANGED << eError, eFaults >>
       ELSE /\ eError' = "write failed"
            /\ eFaults' = eFaults + 1
            /\ epc' = "m_catch"
            /\ UNCHANGED << artifacts, eFile >>
    /\ UNCHANGED << eRuns, srcTables, ckpt, eSnapshot, eLoop, eTable, eCount, eOffset,
                    eTotal, eRecords, eData, eDoneAtStart, eAttempted, ckptWrites, srcReads,
                    lastThrown >>

\* await updateExportCheckpoint(id, { status: 'completed', ... }); exportModule returns
ExpMarkCompleted ==
    /\ epc = "m_complete"
    /\ ckpt' = [ckpt EXCEPT ![CurModule] = MarkCompleted(@, eFile.path, eFile.size, eTotal)]
    /\ eLoop' = eLoop + 1
    /\ epc' = "loop"
    /\ UNCHANGED << eRuns, srcTables, eSnapshot, eTable, eCount, eOffset, eTotal, eRecords,
                    eData, eFile, eError, eDoneAtStart, eAttempted, eFaults, ckptWrites,
                    srcReads, lastThrown, artifacts >>

\* catch (error) { await updateExportCheckpoint(id, { status: 'failed', error_message });
\* throw error; }  exportAllModules rejects with what exportModule threw.  When the
\* update itself rejects, its error is what is thrown and the row is left as it was.
ExpMarkFailed(ok) ==
    /\ epc = "m_catch"
    /\ ok \/ CanFail
    /\ IF ok
       THEN /\ ckpt' = [ckpt EXCEPT ![CurModule] = MarkFailed(@, eError)]
            /\ lastThrown' = eError
            /\ UNCHANGED eFaults
       ELSE /\ ckpt' = ckpt
            /\ lastThrown' = "checkpoint update failed"
            /\ eFaults' = eFaults + 1
    /\ epc' = "done"
    /\ UNCHANGED << eRuns, srcTables, eSnapshot, eLoop, eTable, eCount, eOffset, eTotal,
                    eRecords, eData, eFile, eError, eDoneAtStart, eAttempted, ckptWrites,
                    srcReads, artifacts >>

NextExpVars ==
    \/ ExpStart
    \/ ExpInitCheckpoints
    \/ ExpGetCheckpoints
    \/ ExpLoopSkip
    \/ ExpLoopCall
    \/ ExpLoopEnd
    \/ ExpReadCheckpoint
    \/ ExpMarkInProgress
    \/ \E ok \in BOOLEAN : ExpGetSource(ok)
    \/ \E ok \in BOOLEAN : ExpTableExists(ok)
    \/ \E ok \in BOOLEAN : ExpTableCount(ok)
    \/ \E ok \in BOOLEAN : ExpBatch(ok)
    \/ ExpProgress
    \/ ExpTableDone
    \/ \E ok \in BOOLEAN, jsonSize \in JsonSizes : ExpWriteArtifact(ok, jsonSize)
    \/ ExpMarkCompleted
    \/ \E ok \in BOOLEAN : ExpMarkFailed(ok)

\* ========================================================================
\* Record compatibility analyzer (lib/migration/record-analyzer.ts)
\* ========================================================================

\* The two lists handed to analyzeRecordCompatibility (table names; the
\* sourceRecordCount of each entry is the count stored by an earlier comparison).
compatibleTables   == << "tags" >>
incompatibleTables == << "orders", "partners" >>
StoredCounts == 1..MaxRows

\* The queries of one table's analysis, in the order they are issued.
AnalyzerQueries ==
    { "targetCount", "sourceColumns", "targetColumns", "columnListing",
      "nonNullProbe", "eeOnlyCount", "sample" }

\* The queries that fail during one table's analysis: none, one of them, or
\* the non-null probe and a later query.
AnalyzerFailures ==
    { {} } \cup { {q} : q \in AnalyzerQueries }
           \cup { {"nonNullProbe", q} : q \in {"eeOnlyCount", "sample"} }

\* The contents the analyzer tells apart: a source value is NULL or not; of
\* the target, analyzeCompatibleDiffTable reads only the number of rows and
\* analyzeIncompatibleDiffTable only the columns.
AnalyzerSources == { t \in SourceContents : \A r \in AllRows : r.promo_code = "y" => t.rows[r] = 0 }
CountedTargets  == { t \in ExistingTables : t.cols = <<"id">> }
ColumnTargets   == { t \in ExistingTables : RowCount(t) = 0 }

\* (a / b) * 100 as a number: a reduced fraction, NaN for 0 / 0.
RECURSIVE Gcd(_, _)
Gcd(a, b) == IF b = 0 THEN a ELSE Gcd(b, a % b)
Abs(n) == IF n < 0 THEN 0 - n ELSE n
NaN == [num |-> 0, den |-> 0]
Number(n) == [num |-> n, den |-> 1]
Percentage(part, whole) ==
    IF whole = 0 THEN NaN
    ELSE LET g == Gcd(Abs(part * 100), whole)
         IN  [num |-> (part * 100) \div g, den |-> whole \div g]

\* getMissingColumnsInTarget: source columns, in ordinal order, not in the target.
getMissingColumnsInTarget(src, tgt) ==
    LET NotInTarget(c) == ~Includes(getTableColumns(tgt), c)
    IN  SelectSeq(getTableColumns(src), NotInTarget)

\* SELECT COUNT(*) FROM "t" WHERE "c1" IS NOT NULL OR "c2" IS NOT NULL ...
CountWithData(table, cols) ==
    SumOver([r \in AllRows |-> IF \E c \in Range(cols) : r[c] # "NULL" THEN table.rows[r] ELSE 0],
            AllRows)

\* SELECT * ... WHERE <conditions> LIMIT 5: the number of sample rows.
SampleSize(n) == IF n < 5 THEN n ELSE 5

\* A catch block that reports the table as fully compatible.
ErrorResultCompatible(tableName, category, sourceRecordCount) ==
    [ tableName |-> tableName, category |-> category,
      totalRecords |-> sourceRecordCount,
      ceCompatibleRecords |-> sourceRecordCount,
      eeOnlyRecords |-> 0,
      percentageCompatible |-> Number(100),
      missingColumns |-> <<>> ]

\* The result of the catch blocks (lines 156-164 and 232-240).
ErrorResult(tableName, category, sourceRecordCount) ==
    [ tableName |-> tableName, category |-> category,
      totalRecords |-> sourceRecordCount,
      ceCompatibleRecords |-> 0,
      eeOnlyRecords |-> sourceRecordCount,
      percentageCompatible |-> Number(0),
      missingColumns |-> <<>> ]

\* An all-null branch that reports the table as fully at-risk.
AllNullResultAtRisk(tableName, sourceRecordCount, missingColumns) ==
    [ tableName |-> tableName, category |-> "incompatible_diff",
      totalRecords |-> sourceRecordCount,
      ceCompatibleRecords |-> 0,
      eeOnlyRecords |-> sourceRecordCount,
      percentageCompatible |-> Number(0),
      missingColumns |-> missingColumns ]

\* The result when no missing column holds data (lines 187-195).
AllNullResult(tableName, sourceRecordCount, missingColumns) ==
    [ tableName |-> tableName, category |-> "incompatible_diff",
      totalRecords |-> sourceRecordCount,
      ceCompatibleRecords |-> sourceRecordCount,
      eeOnlyRecords |-> 0,
      percentageCompatible |-> Number(100),
      missingColumns |-> missingColumns ]

\* A counted result that forgets to subtract the EE-only records.
CountedResultNoSubtract(tableName, sourceRecordCount, eeOnlyRecords, missingColumns, samples) ==
    [ tableName |-> tableName, category |-> "incompatible_diff",
      totalRecords |-> sourceRecordCount,
      ceCompatibleRecords |-> sourceRecordCount,
      eeOnlyRecords |-> eeOnlyRecords,
      percentageCompatible |-> Number(100),
      missingColumns |-> missingColumns,
      sampleIncompatibleRecords |-> samples ]

\* The result built from the count of records holding data in a missing
\* column (lines 207-229).
CountedResult(tableName, sourceRecordCount, eeOnlyRecords, missingColumns, samples) ==
    LET ceCompatibleRecords == sourceRecordCount - eeOnlyRecords IN
    [ tableName |-> tableName, category |-> "incompatible_diff",
      totalRecords |-> sourceRecordCount,
      ceCompatibleRecords |-> ceCompatibleRecords,
      eeOnlyRecords |-> eeOnlyRecords,
      percentageCompatible |-> Percentage(ceCompatibleRecords, sourceRecordCount),
      missingColumns |-> missingColumns,
      sampleIncompatibleRecords |-> samples ]

\* The outcome of one table's analysis: the result pushed, the query whose
\* failure sent the analysis to its catch block ("none" if it did not throw),
\* and whether the non-null probe failed and fell back to every column.
Outcome(result, threw, fellBack) == [result |-> result, threw |-> threw, fellBack |-> fellBack]

\* analyzeCompatibleDiffTable(sourcePool, targetPool, tableName, sourceRecordCount)
analyzeCompatibleDiffTable(tableName, src, tgt, sourceRecordCount, fails) ==
    IF "targetCount" \in fails
    THEN Outcome(ErrorResult(tableName, "compatible_diff", sourceRecordCount), "targetCount", FALSE)
    ELSE LET targetCount == RowCount(tgt)
             ceCompatibleRecords ==
                 IF sourceRecordCount < targetCount THEN sourceRecordCount ELSE targetCount
         IN  Outcome([ tableName |-> tableName, category |-> "compatible_diff",
                       totalRecords |-> sourceRecordCount,
                       ceCompatibleRecords |-> ceCompatibleRecords,
                       eeOnlyRecords |-> sourceRecordCount - ceCompatibleRecords,
                       percentageCompatible |-> Percentage(ceCompatibleRecords, sourceRecordCount),
                       missingColumns |-> <<>> ],
                     "none", FALSE)

\* analyzeIncompatibleDiffTable(sourcePool, targetPool, tableName, sourceRecordCount)
analyzeIncompatibleDiffTable(tableName, src, tgt, sourceRecordCount, fails) ==
    LET missingColumns == getMissingColumnsInTarget(src, tgt)
        fellBack       == Len(getTableColumns(src)) # 0 /\ "nonNullProbe" \in fails
        nonNullColumns == getNonNullColumns(src, "nonNullProbe" \in fails)
        HasNonNull(c)  == Includes(nonNullColumns, c)
        missingWithData == SelectSeq(missingColumns, HasNonNull)
        eeOnlyRecords  == CountWithData(src, missingWithData)
        Threw(q) == Outcome(ErrorResult(tableName, "incompatible_diff", sourceRecordCount), q, FALSE)
    IN  IF "sourceColumns" \in fails THEN Threw("sourceColumns")
        ELSE IF "targetColumns" \in fails THEN Threw("targetColumns")
        ELSE IF "columnListing" \in fails THEN Threw("columnListing")
        ELSE IF Len(missingWithData) = 0
        THEN Outcome(AllNullResult(tableName, sourceRecordCount, missingColumns), "none", fellBack)
        ELSE IF "eeOnlyCount" \in fails THEN Threw("eeOnlyCount")
        ELSE IF "sample" \in fails THEN Threw("sample")
        ELSE Outcome(CountedResult(tableName, sourceRecordCount, eeOnlyRecords, missingColumns,
                                   SampleSize(eeOnlyRecords)),
                     "none", fellBack)

\* allResults.reduce((sum, r) => sum + r[field], 0)
RECURSIVE Reduce(_, _)
Reduce(results, field) ==
    IF results = <<>> THEN 0 ELSE results[1][field] + Reduce(Tail(results), field)

\* The summary of lines 283-291.
Summarize(compatible, incompatible) ==
    LET allResults == compatible \o incompatible IN
    [ totalTablesAnalyzed |-> Len(allResults),
      totalCompatibleTables |-> Len(compatible),
      totalIncompatibleTables |-> Len(incompatible),
      totalRecords |-> Reduce(allResults, "totalRecords"),
      ceCompatibleRecords |-> Reduce(allResults, "ceCompatibleRecords"),
      eeOnlyRecords |-> Reduce(allResults, "eeOnlyRecords") ]

NoSummary == [totalTablesAnalyzed |-> 0 - 1]

\* What is true of the table just analyzed, whatever the analysis made of it.
AnalysisFacts(list, src, tgt, sourceRecordCount, o) ==
    LET missing == Range(getTableColumns(src)) \ Range(getTableColumns(tgt)) IN
    [ list |-> list,
      sourceRecordCount |-> sourceRecordCount,
      threw |-> o.threw,
      fellBack |-> o.fellBack,
      missing |-> missing,
      missingAllNull |-> \A c \in missing : ~HasData(src, c),
      rowsWithMissingData |->
          SumOver([r \in AllRows |-> IF \E c \in missing : r[c] # "NULL" THEN src.rows[r] ELSE 0],
                  AllRows) ]

NoAnalysisFacts == [list |-> "none"]

InitAnaVars ==
    /\ apc = "idle"
    /\ aIdx = 0
    /\ aLast = NoAnalysisFacts
    /\ aThrown = <<>>
    /\ compatibleDiffTables = <<>>
    /\ incompatibleDiffTables = <<>>
    /\ summary = NoSummary

\* analyzeRecordCompatibility is called: the two result arrays are empty.
AnaStart ==
    /\ apc \in {"idle", "done"}
    /\ apc' = "compatible"
    /\ aIdx' = 1
    /\ aLast' = NoAnalysisFacts
    /\ aThrown' = <<>>
    /\ compatibleDiffTables' = <<>>
    /\ incompatibleDiffTables' = <<>>
    /\ summary' = NoSummary

\* for (const table of compatibleTables) { result = await analyzeCompatibleDiffTable; push }
AnaCompatible(src, tgt, sourceRecordCount, fails) ==
    /\ apc = "compatible"
    /\ aIdx <= Len(compatibleTables)
    /\ LET o == analyzeCompatibleDiffTable(compatibleTables[aIdx], src, tgt, sourceRecordCount, fails)
       IN  /\ compatibleDiffTables' = Append(compatibleDiffTables, o.result)
           /\ aLast' = AnalysisFacts("compatible", src, tgt, sourceRecordCount, o)
           /\ aThrown' = Append(aThrown, o.threw)
    /\ aIdx' = aIdx + 1
    /\ UNCHANGED << apc, incompatibleDiffTables, summary >>

\* the first loop is over; the second one starts
AnaNextList ==
    /\ apc = "compatible"
    /\ aIdx > Len(compatibleTables)
    /\ apc' = "incompatible"
    /\ aIdx' = 1
    /\ aLast' = NoAnalysisFacts
    /\ UNCHANGED << aThrown, compatibleDiffTables, incompatibleDiffTables, summary >>

\* for (const table of incompatibleTables) { result = await analyzeIncompatibleDiffTable; push }
AnaIncompatible(src, tgt, sourceRecordCount, fails) ==
    /\ apc = "incompatible"
    /\ aIdx <= Len(incompatibleTables)
    /\ LET o == analyzeIncompatibleDiffTable(incompatibleTables[aIdx], src, tgt,
                                             sourceRecordCount, fails)
       IN  /\ incompatibleDiffTables' = Append(incompatibleDiffTables, o.result)
           /\ aLast' = AnalysisFacts("incompatible", src, tgt, sourceRecordCount, o)
           /\ aThrown' = Append(aThrown, o.threw)
    /\ aIdx' = aIdx + 1
    /\ UNCHANGED << apc, compatibleDiffTables, summary >>

\* the summary is computed and the result returned
AnaReturn ==
    /\ apc = "incompatible"
    /\ aIdx > Len(incompatibleTables)
    /\ summary' = Summarize(compatibleDiffTables, incompatibleDiffTables)
    /\ aLast' = NoAnalysisFacts
    /\ apc' = "done"
    /\ UNCHANGED << aIdx, aThrown, compatibleDiffTables, incompatibleDiffTables >>

NextAnaVars ==
    \/ AnaStart
    \/ \E src \in AnalyzerSources, tgt \in CountedTargets, n \in StoredCounts,
          fails \in AnalyzerFailures : AnaCompatible(src, tgt, n, fails)
    \/ AnaNextList
    \/ \E src \in AnalyzerSources, tgt \in ColumnTargets, n \in StoredCounts,
          fails \in AnalyzerFailures : AnaIncompatible(src, tgt, n, fails)
    \/ AnaReturn

\* ========================================================================
\* Job record: the status written by the four phase routes
\* (app/api/analyze, app/api/export, app/api/migrate, app/api/validate)
\* ========================================================================
\* One job is followed.  Each route has at most one request for the job in
\* flight; requests to different routes overlap freely, as HTTP requests do.
\* The configuration database (which holds migration_jobs) answers every
\* statement; what can fail is the work done between the status writes.

MaxRequests == 4

Phases == {"analyze", "export", "migrate", "validate"}

\* pc: "idle" (no request yet), "active" (its in-progress status is written),
\* "dry" (a dry-run migration, which writes no status), "ok" / "error" (ended).
Running(p) == phase[p].pc \in {"active", "dry"}

RECURSIVE MaxStarted(_)
MaxStarted(ps) ==
    IF ps = {} THEN 0
    ELSE LET p == CHOOSE q \in ps : TRUE
             m == MaxStarted(ps \ {p})
         IN  IF phase[p].started > m THEN phase[p].started ELSE m

\* The job's id reaches a client in the answer of POST /api/analyze and in
\* GET /api/analyze?latest=true, which reads it from analysis_results.
JobKnown == hasAnalysis

\* The request of route p for the job arrives and passes the route's checks.
Begin(p, pc) ==
    /\ ~Running(p)
    /\ MaxStarted(Phases) < MaxRequests
    /\ phase' = [phase EXCEPT ![p] = [pc |-> pc, started |-> MaxStarted(Phases) + 1]]

\* UPDATE migration_jobs SET status = ... WHERE id = job_id, made by phase p.
SetStatus(p, status, started) ==
    /\ jobStatus' = status
    /\ statusBy' = started

End(p, pc) == phase' = [phase EXCEPT ![p].pc = pc]

NoValidation == "none"

InitJobVars ==
    /\ jobStatus = "none"
    /\ hasAnalysis = FALSE
    /\ phase = [p \in Phases |-> [pc |-> "idle", started |-> 0]]
    /\ statusBy = 0
    /\ validationResult = NoValidation

\* POST /api/analyze: INSERT INTO migration_jobs (status ...) VALUES ('analyzing' ...).
JobAnalyzeStart ==
    /\ jobStatus = "none"
    /\ Begin("analyze", "active")
    /\ SetStatus("analyze", "analyzing", MaxStarted(Phases) + 1)
    /\ UNCHANGED << hasAnalysis, validationResult >>

\* compareTablesBetweenDatabases returned; INSERT INTO analysis_results.
JobAnalyzeSave ==
    /\ phase["analyze"].pc = "active"
    /\ ~hasAnalysis
    /\ hasAnalysis' = TRUE
    /\ UNCHANGED << jobStatus, phase, statusBy, validationResult >>

\* UPDATE migration_jobs SET status = 'pending', completed_at = ...
JobAnalyzeOk ==
    /\ phase["analyze"].pc = "active"
    /\ hasAnalysis
    /\ SetStatus("analyze", "pending", phase["analyze"].started)
    /\ End("analyze", "ok")
    /\ UNCHANGED << hasAnalysis, validationResult >>

\* getConnectionWithPassword or compareTablesBetweenDatabases rejected (the
\* listing of the source's tables is outside every try): the route's catch
\* answers 500 and writes nothing.
JobAnalyzeThrows ==
    /\ phase["analyze"].pc = "active"
    /\ ~hasAnalysis
    /\ End("analyze", "error")
    /\ UNCHANGED << jobStatus, hasAnalysis, statusBy, validationResult >>

\* POST /api/export: UPDATE ... 'exporting', initializeExportCheckpoints, then
\* exportAllModules is started and not awaited.
JobExportStart ==
    /\ JobKnown
    /\ Begin("export", "active")
    /\ SetStatus("export", "exporting", MaxStarted(Phases) + 1)
    /\ UNCHANGED << hasAnalysis, validationResult >>

\* .then of the export promise: UPDATE ... SET status = 'pending'.
JobExportThen ==
    /\ phase["export"].pc = "active"
    /\ SetStatus("export", "pending", phase["export"].started)
    /\ End("export", "ok")
    /\ UNCHANGED << hasAnalysis, validationResult >>

\* .catch of the export promise: UPDATE ... SET status = 'failed', error_message.
JobExportCatch ==
    /\ phase["export"].pc = "active"
    /\ SetStatus("export", "failed", phase["export"].started)
    /\ End("export", "error")
    /\ UNCHANGED << hasAnalysis, validationResult >>

\* POST /api/migrate: needs the job's analysis results; a live run writes
\* 'migrating', a dry run writes nothing.
JobMigrateStart(dry_run) ==
    /\ JobKnown
    /\ hasAnalysis
    /\ Begin("migrate", IF dry_run THEN "dry" ELSE "active")
    /\ IF dry_run
         THEN UNCHANGED << jobStatus, statusBy >>
         ELSE SetStatus("migrate", "migrating", MaxStarted(Phases) + 1)
    /\ UNCHANGED << hasAnalysis, validationResult >>

\* executeMigration returned (it catches every error and reports it in
\* result.success); a live run writes 'pending' or 'failed'.
JobMigrateEnd(success) ==
    /\ Running("migrate")
    /\ IF phase["migrate"].pc = "dry"
         THEN UNCHANGED << jobStatus, statusBy >>
         ELSE SetStatus("migrate", IF success THEN "pending" ELSE "failed",
                        phase["migrate"].started)
    /\ End("migrate", IF success THEN "ok" ELSE "error")
    /\ UNCHANGED << hasAnalysis, validationResult >>

\* POST /api/validate: UPDATE ... SET status = 'validating'.
JobValidateStart ==
    /\ JobKnown
    /\ Begin("validate", "active")
    /\ SetStatus("validate", "validating", MaxStarted(Phases) + 1)
    /\ validationResult' = NoValidation
    /\ UNCHANGED hasAnalysis

\* A status choice that lets a validation with warnings complete the job.
ValidatedStatusLenient(overall_status) ==
    IF overall_status = "fail" THEN "failed" ELSE "completed"

\* validationResult.overall_status === 'pass' ? 'completed' : 'failed'
ValidatedStatus(overall_status) ==
    IF overall_status = "pass" THEN "completed" ELSE "failed"

\* const validationResult = await validateMigration(...) returned;
\* UPDATE migration_jobs SET status = $2, completed_at = CURRENT_TIMESTAMP.
JobValidateEnd(overall_status) ==
    /\ phase["validate"].pc = "active"
    /\ validationResult' = overall_status
    /\ SetStatus("validate", ValidatedStatus(overall_status), phase["validate"].started)
    /\ End("validate", IF overall_status = "pass" THEN "ok" ELSE "error")
    /\ UNCHANGED hasAnalysis

\* validateMigration rejected (getConnectionConfig or saveValidationResults,
\* which are outside the checks' try blocks): the route's catch answers 500
\* and writes nothing.
JobValidateThrows ==
    /\ phase["validate"].pc = "active"
    /\ End("validate", "error")
    /\ UNCHANGED << jobStatus, hasAnalysis, statusBy, validationResult >>

NextJobVars ==
    \/ JobAnalyzeStart
    \/ JobAnalyzeSave
    \/ JobAnalyzeOk
    \/ JobAnalyzeThrows
    \/ JobExportStart
    \/ JobExportThen
    \/ JobExportCatch
    \/ \E dry_run \in BOOLEAN : JobMigrateStart(dry_run)
    \/ \E success \in BOOLEAN : JobMigrateEnd(success)
    \/ JobValidateStart
    \/ \E overall_status \in {"pass", "warning", "fail"} : JobValidateEnd(overall_status)
    \/ JobValidateThrows

\* ========================================================================
\* Connections: stored credentials and the pool cache
\* (lib/database/credential-manager.ts, lib/database/connection.ts)
\* ========================================================================

ConnIds   == {1, 2}
Databases == {"odoo_ee", "odoo_ee_copy"}
Passwords == {"secret", "s3cret"}

NoConn == [database |-> "none"]
NoPool == [database |-> "none", usedFor |-> {}]
NoLoad == [connectionId |-> 0, threw |-> FALSE, password |-> "none"]

\* A value of the encrypted_password column that is a password as typed
\* (encrypted: it is an "iv:ciphertext" string made by encryptPassword, which
\* no caller in the repository produces).
Plain(password) == [encrypted |-> FALSE, text |-> password]

\* saveConnection: UPDATE ... SET database = $4, encrypted_password = $6 (ON
\* CONFLICT DO UPDATE likewise) with $6 = data.password.
saveConnection(data) ==
    [database |-> data.database, encrypted_password |-> Plain(data.password)]

\* decryptPassword: splits at ':' into iv and ciphertext and deciphers; a
\* string that is not such a pair makes createDecipheriv or final() throw.
decryptPassword(encryptedPassword) ==
    IF encryptedPassword.encrypted
    THEN [threw |-> FALSE, password |-> encryptedPassword.text]
    ELSE [threw |-> TRUE,  password |-> "none"]

\* getConnectionConfig: the row of the id, its password decrypted.
getConnectionConfig(connectionId) ==
    IF dbConnections[connectionId] = NoConn
    THEN [connectionId |-> connectionId, threw |-> TRUE, password |-> "none"]
    ELSE [connectionId |-> connectionId] @@
         decryptPassword(dbConnections[connectionId].encrypted_password)

\* getOdooPool: if (!odooPools.has(connectionId)) a pool is made from config
\* and stored; the stored pool is returned.  usedFor collects the databases
\* of the configurations the pool was handed out for.
getOdooPool(connectionId, config) ==
    IF odooPools[connectionId] = NoPool
    THEN [odooPools EXCEPT ![connectionId] =
            [database |-> config.database, usedFor |-> {config.database}]]
    ELSE [odooPools EXCEPT ![connectionId].usedFor = @ \cup {config.database}]

InitConnVars ==
    /\ dbConnections = [id \in ConnIds |-> NoConn]
    /\ savedPassword = [id \in ConnIds |-> "none"]
    /\ odooPools = [id \in ConnIds |-> NoPool]
    /\ lastLoad = NoLoad

\* POST /api/connections: saveConnection(data).
ConnSave(id, data) ==
    /\ dbConnections' = [dbConnections EXCEPT ![id] = saveConnection(data)]
    /\ savedPassword' = [savedPassword EXCEPT ![id] = data.password]
    /\ UNCHANGED << odooPools, lastLoad >>

\* A route reads the stored connection (getConnectionWithPassword) and asks
\* for its pool: getOdooPool(`source_${id}`, { ...database, password }).
ConnGetPool(id) ==
    /\ dbConnections[id] # NoConn
    /\ odooPools' = getOdooPool(id, dbConnections[id])
    /\ UNCHANGED << dbConnections, savedPassword, lastLoad >>

\* exportModule, executeMigration, validateMigration: getConnectionConfig(id).
ConnLoadConfig(id) ==
    /\ lastLoad' = getConnectionConfig(id)
    /\ UNCHANGED << dbConnections, savedPassword, odooPools >>

NextConnVars ==
    \/ \E id \in ConnIds, database \in Databases, password \in Passwords :
          ConnSave(id, [database |-> database, password |-> password])
    \/ \E id \in ConnIds : ConnGetPool(id)
    \/ \E id \in ConnIds : ConnLoadConfig(id)

\* ========================================================================
\* Validator: validateMigration, saveValidationResults, getValidationResults
\* (lib/migration/validator.ts, src/unnamed/part_011 lines 278-734)
\* ========================================================================

MaxValidateRuns == 2
MaxCheckFaults  == 2

\* The eight checks in the order validateMigration runs them: the status a
\* finding gives, and the status the check's catch block gives.
VALIDATION_CHECKS ==
    << [check_name |-> "EE Modules Check",            found |-> "fail",    caught |-> "fail"],
       [check_name |-> "EE Tables Check",             found |-> "fail",    caught |-> "fail"],
       [check_name |-> "Orphaned Foreign Keys Check", found |-> "warning", caught |-> "warning"],
       [check_name |-> "EE Models Check",             found |-> "fail",    caught |-> "fail"],
       [check_name |-> "EE Views Check",              found |-> "warning", caught |-> "warning"],
       [check_name |-> "EE Actions Check",            found |-> "warning", caught |-> "warning"],
       [check_name |-> "EE Cron Jobs Check",          found |-> "warning", caught |-> "warning"],
       [check_name |-> "Database Integrity Check",    found |-> "fail",    caught |-> "warning"] >>

CheckIds == 1..Len(VALIDATION_CHECKS)

\* Staging databases: the number of rows the query of each check returns
\* (for check 8 the count of user tables it reads).
StagingStates ==
    { <<0, 0, 0, 0, 0, 0, 0, 12>>,      \* a clean Community database
      <<2, 1, 0, 3, 1, 0, 0, 12>>,      \* Enterprise leftovers
      <<0, 0, 1, 0, 0, 0, 1, 12>>,      \* only warnings
      <<0, 0, 0, 0, 0, 0, 0, 0>> }      \* no user tables at all

\* The try part of a check: recordsFound === 0 ? 'pass' : status; the
\* integrity check passes when recordsFound > 0.
CheckResult(i, recordsFound) ==
    [ check_name |-> VALIDATION_CHECKS[i].check_name,
      status |-> IF i = 8
                 THEN (IF recordsFound > 0 THEN "pass" ELSE VALIDATION_CHECKS[i].found)
                 ELSE (IF recordsFound = 0 THEN "pass" ELSE VALIDATION_CHECKS[i].found),
      records_found |-> recordsFound ]

\* A catch part that reports the check as passed.
CheckCaughtAsPass(i) ==
    [ check_name |-> VALIDATION_CHECKS[i].check_name,
      status |-> "pass",
      records_found |-> 0 - 1 ]

\* The catch part of a check: its fixed status and records_found: -1.
CheckCaught(i) ==
    [ check_name |-> VALIDATION_CHECKS[i].check_name,
      status |-> VALIDATION_CHECKS[i].caught,
      records_found |-> 0 - 1 ]

\* checks.filter((c) => c.status === status).length
CountStatus(list, status) == Len(SelectSeq(list, LAMBDA c : c.status = status))

\* An aggregation in which a warning outranks a failure.
BuildResultWarningFirst(list) ==
    LET tally == [ total    |-> Len(list),
                     passed   |-> CountStatus(list, "pass"),
                     failed   |-> CountStatus(list, "fail"),
                     warnings |-> CountStatus(list, "warning") ]
    IN  [ overall_status |-> IF tally.warnings > 0 THEN "warning"
                             ELSE IF tally.failed > 0 THEN "fail" ELSE "pass",
          checks |-> list,
          summary |-> tally ]

\* summary = { total, passed, failed, warnings }; overall_status =
\* tally.failed > 0 ? 'fail' : tally.warnings > 0 ? 'warning' : 'pass'
BuildResult(list) ==
    LET tally == [ total    |-> Len(list),
                     passed   |-> CountStatus(list, "pass"),
                     failed   |-> CountStatus(list, "fail"),
                     warnings |-> CountStatus(list, "warning") ]
    IN  [ overall_status |-> IF tally.failed > 0 THEN "fail"
                             ELSE IF tally.warnings > 0 THEN "warning" ELSE "pass",
          checks |-> list,
          summary |-> tally ]

NoResult == [overall_status |-> "none"]

\* saveValidationResults: one INSERT INTO validation_results per check.
saveValidationResults(rows, list) == rows \o list

\* getValidationResults: SELECT ... WHERE job_id = $1 ORDER BY id; null when
\* there is no row, else the aggregate of all the rows.
getValidationResults(rows) ==
    IF Len(rows) = 0 THEN NoResult ELSE BuildResult(rows)

InitValVars ==
    /\ vpc = "idle"
    /\ vStaging = <<0, 0, 0, 0, 0, 0, 0, 0>>
    /\ vFailed = {}
    /\ vFaults = 0
    /\ vRuns = 0
    /\ checks = <<>>
    /\ validationRows = <<>>
    /\ vResult = NoResult
    /\ vGot = NoResult

\* validateMigration(jobId, stagingConnectionId): getConnectionConfig and
\* getOdooPool; const checks = [].  When getConnectionConfig rejects, so does
\* validateMigration, before any check.
ValStart(ok) ==
    /\ vpc = "idle"
    /\ vRuns < MaxValidateRuns
    /\ vRuns' = vRuns + 1
    /\ checks' = <<>>
    /\ vFailed' = {}
    /\ vpc' = IF ok THEN "check" ELSE "idle"
    /\ UNCHANGED << vStaging, vFaults, validationRows, vResult, vGot >>

\* const check = await checkX(stagingPool); checks.push(check);
ValCheck(ok) ==
    /\ vpc = "check"
    /\ ok \/ vFaults < MaxCheckFaults
    /\ LET i == Len(checks) + 1
       IN  /\ checks' = Append(checks, IF ok THEN CheckResult(i, vStaging[i])
                                             ELSE CheckCaught(i))
           /\ vFailed' = IF ok THEN vFailed ELSE vFailed \cup {i}
           /\ vpc' = IF i = Len(VALIDATION_CHECKS) THEN "save" ELSE "check"
    /\ vFaults' = IF ok THEN vFaults ELSE vFaults + 1
    /\ UNCHANGED << vStaging, vRuns, validationRows, vResult, vGot >>

\* await saveValidationResults(jobId, checks); the summary and the overall
\* status are computed and the result is returned.
ValSaveAndReturn ==
    /\ vpc = "save"
    /\ validationRows' = saveValidationResults(validationRows, checks)
    /\ vResult' = BuildResult(checks)
    /\ vpc' = "idle"
    /\ UNCHANGED << vStaging, vFailed, vFaults, vRuns, checks, vGot >>

\* GET /api/validate?job_id=...: getValidationResults(jobId).
ValGet ==
    /\ vGot' = getValidationResults(validationRows)
    /\ UNCHANGED << vpc, vStaging, vFailed, vFaults, vRuns, checks, validationRows, vResult >>

NextValVars ==
    \/ \E ok \in BOOLEAN : ValStart(ok)
    \/ \E ok \in BOOLEAN : ValCheck(ok)
    \/ ValSaveAndReturn
    \/ ValGet

\* ========================================================================
\* Two exportAllModules calls for the same job at the same time
\* (POST /api/export starts one per request and holds no lock)
\* ========================================================================
\* The two calls work on one module whose first table is in the source and
\* whose other tables are missing, so that the module total is that table's
\* row count.  Every await of exportModule that writes the checkpoint is a
\* step of its own; the source reads and the file write in between touch
\* nothing the other call reads and are part of the step that follows them.

MaxOverlapFaults == 1
Calls == {1, 2}

OverlapModule == EXPORT_MODULES[1].moduleName

\* Head of `while (offset < count)` when the table is the module's last one
\* with rows: the loop body, or the writing of the artifact.
OverlapHead(offset, count) ==
    IF WhileHead(offset, count) = "m_batch" THEN "m_batch" ELSE "m_write"

InitOvlVars ==
    /\ opc = [c \in Calls |-> "idle"]
    /\ oRow = NoRow
    /\ oCount = 0
    /\ oOffset = [c \in Calls |-> 0]
    /\ oFaults = 0

\* exportAllModules(jobId, ...): await initializeExportCheckpoints(jobId)
OvStart(c) ==
    /\ opc[c] = "idle"
    /\ oRow' = InitCheckpointRow(oRow)
    /\ opc' = [opc EXCEPT ![c] = "list"]
    /\ UNCHANGED << oCount, oOffset, oFaults >>

\* const checkpoints = await getExportCheckpoints(jobId);
\* for (...) if (checkpoint.status !== 'completed') await exportModule(...)
OvGetCheckpoints(c) ==
    /\ opc[c] = "list"
    /\ opc' = [opc EXCEPT ![c] = IF NeedsExport(oRow.status) THEN "m_read" ELSE "done"]
    /\ UNCHANGED << oRow, oCount, oOffset, oFaults >>

\* exportModule: SELECT the checkpoint; if (checkpoint.status === 'completed') return;
OvReadCheckpoint(c) ==
    /\ opc[c] = "m_read"
    /\ opc' = [opc EXCEPT ![c] = IF AlreadyCompleted(oRow.status) THEN "done" ELSE "m_mark"]
    /\ UNCHANGED << oRow, oCount, oOffset, oFaults >>

\* await updateExportCheckpoint(checkpoint.id, { status: 'in_progress', started_at });
\* then tableExists, getTableCount, let offset = 0; while (offset < count)
OvMarkInProgress(c) ==
    /\ opc[c] = "m_mark"
    /\ oRow' = MarkInProgress(oRow)
    /\ oOffset' = [oOffset EXCEPT ![c] = StartOffset(oRow)]
    /\ opc' = [opc EXCEPT ![c] = OverlapHead(StartOffset(oRow), oCount)]
    /\ UNCHANGED << oCount, oFaults >>

\* const batch = await executeQuery(...); offset += BATCH_SIZE;
\* await updateExportCheckpoint(checkpoint.id, { records_exported: offset, total_records })
OvBatch(c, ok) ==
    /\ opc[c] = "m_batch"
    /\ ok \/ oFaults < MaxOverlapFaults
    /\ IF ok
       THEN /\ oOffset' = [oOffset EXCEPT ![c] = NextOffset(@)]
            /\ oRow' = Progress(oRow, NextOffset(oOffset[c]), oCount)
            /\ opc' = [opc EXCEPT ![c] = OverlapHead(NextOffset(oOffset[c]), oCount)]
            /\ UNCHANGED oFaults
       ELSE /\ oFaults' = oFaults + 1
            /\ opc' = [opc EXCEPT ![c] = "m_catch"]
            /\ UNCHANGED << oRow, oOffset >>
    /\ UNCHANGED oCount

\* JSON.stringify and the file write; then
\* await updateExportCheckpoint(checkpoint.id, { status: 'completed', ... })
OvMarkCompleted(c, ok, jsonSize) ==
    /\ opc[c] = "m_write"
    /\ ok \/ oFaults < MaxOverlapFaults
    /\ IF ok
       THEN /\ oRow' = MarkCompleted(oRow,
                           FilePath(OverlapModule, c, shouldCompress(jsonSize)),
                           IF shouldCompress(jsonSize) THEN GzipSize(jsonSize) ELSE jsonSize,
                           oCount)
            /\ opc' = [opc EXCEPT ![c] = "done"]
            /\ UNCHANGED oFaults
       ELSE /\ oFaults' = oFaults + 1
            /\ opc' = [opc EXCEPT ![c] = "m_catch"]
            /\ UNCHANGED oRow
    /\ UNCHANGED << oCount, oOffset >>

\* catch (error) { await updateExportCheckpoint(checkpoint.id, { status: 'failed', ... });
\* throw error; }
OvMarkFailed(c) ==
    /\ opc[c] = "m_catch"
    /\ oRow' = MarkFailed(oRow, "export failed")
    /\ opc' = [opc EXCEPT ![c] = "done"]
    /\ UNCHANGED << oCount, oOffset, oFaults >>

NextOvlVars ==
    \/ \E c \in Calls : OvStart(c)
    \/ \E c \in Calls : OvGetCheckpoints(c)
    \/ \E c \in Calls : OvReadCheckpoint(c)
    \/ \E c \in Calls : OvMarkInProgress(c)
    \/ \E c \in Calls, ok \in BOOLEAN : OvBatch(c, ok)
    \/ \E c \in Calls, ok \in BOOLEAN, jsonSize \in JsonSizes : OvMarkCompleted(c, ok, jsonSize)
    \/ \E c \in Calls : OvMarkFailed(c)

\* ========================================================================
\* Per-column data-loss analysis of incompatible tables
\* (GET of app/api/analyze/route.ts)
\* ========================================================================

\* The incompatibleTables parameter of the request: one table classified as
\* system configuration, two as business data.
requestedTables == << "iot_box", "helpdesk_ticket", "voip_phonecall" >>

\* classifyTable(tableName), by TABLE_DATA_TYPES
classifyTable(tableName) ==
    IF tableName = "iot_box" THEN "system_configuration" ELSE "business_data"

\* The queries issued for one table, in order; the last two are inside the
\* try block of getSampleRecordsWithDataLoss.
LossQueries ==
    << "count", "dataLossCount", "columnDetails", "columnCount", "columnSample",
       "sampleColumns", "sampleRecords" >>
CaughtLossQueries == { "sampleColumns", "sampleRecords" }

\* The comparator of results.sort: business data first, then by records
\* with data loss, descending.
CompareResults(a, b) ==
    IF a.dataType = "business_data" /\ b.dataType # "business_data" THEN 0 - 1
    ELSE IF a.dataType # "business_data" /\ b.dataType = "business_data" THEN 1
    ELSE b.recordsWithDataLoss - a.recordsWithDataLoss

\* results.sort(compare): a stable sort.
RECURSIVE InsertResult(_, _)
InsertResult(sorted, r) ==
    IF sorted = <<>> THEN << r >>
    ELSE IF CompareResults(sorted[Len(sorted)], r) <= 0 THEN Append(sorted, r)
    ELSE Append(InsertResult(SubSeq(sorted, 1, Len(sorted) - 1), r), sorted[Len(sorted)])
RECURSIVE SortResults(_)
SortResults(list) ==
    IF list = <<>> THEN <<>>
    ELSE InsertResult(SortResults(SubSeq(list, 1, Len(list) - 1)), list[Len(list)])

NoResponse == [status |-> 0]

InitLossVars ==
    /\ lpc = "idle"
    /\ lIdx = 0
    /\ lResults = <<>>
    /\ lThrown = {}
    /\ lResponse = NoResponse

\* GET with sourceId, targetId and incompatibleTables: const results = []
LossStart ==
    /\ lpc \in {"idle", "done"}
    /\ lpc' = "loop"
    /\ lIdx' = 1
    /\ lResults' = <<>>
    /\ lThrown' = {}
    /\ lResponse' = NoResponse

\* One iteration of `for (const table of incompatibleTables)`: the counts,
\* the column details, analyzeColumnDataLoss, getSampleRecordsWithDataLoss,
\* results.push.  A query that rejects outside getSampleRecordsWithDataLoss
\* is caught only by the handler's catch, which answers 500.
LossTable(recordsWithDataLoss, rejects) ==
    /\ lpc = "loop"
    /\ lIdx <= Len(requestedTables)
    /\ IF rejects = {} \/ rejects \subseteq CaughtLossQueries
       THEN /\ lResults' = Append(lResults,
                   [ tableName |-> requestedTables[lIdx],
                     dataType |-> classifyTable(requestedTables[lIdx]),
                     recordsWithDataLoss |-> recordsWithDataLoss,
                     sampleRecords |-> IF rejects = {} THEN recordsWithDataLoss ELSE 0 ])
            /\ lIdx' = lIdx + 1
            /\ UNCHANGED << lpc, lThrown, lResponse >>
       ELSE /\ lThrown' = lThrown \cup { requestedTables[lIdx] }
            /\ lResponse' = [status |-> 500, error |-> "Failed to analyze incompatible fields"]
            /\ lpc' = "done"
            /\ UNCHANGED << lIdx, lResults >>

\* results.sort(...); return NextResponse.json({ success: true, analysis: results, ... })
LossReturn ==
    /\ lpc = "loop"
    /\ lIdx > Len(requestedTables)
    /\ lResults' = SortResults(lResults)
    /\ lResponse' = [status |-> 200, analysis |-> SortResults(lResults)]
    /\ lpc' = "done"
    /\ UNCHANGED << lIdx, lThrown >>

NextLossVars ==
    \/ LossStart
    \/ \E n \in 0..MaxRows, q \in Range(LossQueries) : LossTable(n, {q})
    \/ \E n \in 0..MaxRows : LossTable(n, {})
    \/ LossReturn

\* ========================================================================
\* Specifications
\* ========================================================================

\* The executor alone, for one job whose stored analysis is any of AnalysisResults.
InitExec ==
    /\ xAnalysis \in AnalysisResults
    /\ InitExecVars
    /\ InitCmpVars
    /\ InitExpVars
    /\ InitAnaVars
    /\ InitJobVars
    /\ InitConnVars
    /\ InitValVars
    /\ InitOvlVars
    /\ InitLossVars
    /\ srcTables = [t \in ExportTables |-> Absent]
NextExec == NextExecVars /\ UNCHANGED << cmpVars, expVars, anaVars, jobVars, connVars, valVars, ovlVars, lossVars >>
SpecExec == InitExec /\ [][NextExec]_vars

\* The comparator alone.
InitCompare ==
    /\ xAnalysis = [ee_modules_found |-> <<>>, ee_tables_found |-> <<>>,
                    foreign_key_dependencies |-> <<>>]
    /\ InitExecVars
    /\ InitCmpVars
    /\ InitExpVars
    /\ InitAnaVars
    /\ InitJobVars
    /\ InitConnVars
    /\ InitValVars
    /\ InitOvlVars
    /\ InitLossVars
    /\ srcTables = [t \in ExportTables |-> Absent]
NextCompare == NextCmpVars /\ UNCHANGED << execVars, expVars, anaVars, jobVars, connVars, valVars, ovlVars, lossVars >>
SpecCompare == InitCompare /\ [][NextCompare]_vars

\* The exporter alone: runs of exportAllModules one after the other, over a
\* source database that does not change.
InitExport ==
    /\ xAnalysis = [ee_modules_found |-> <<>>, ee_tables_found |-> <<>>,
                    foreign_key_dependencies |-> <<>>]
    /\ InitExecVars
    /\ InitCmpVars
    /\ InitExpVars
    /\ InitAnaVars
    /\ InitJobVars
    /\ InitConnVars
    /\ InitValVars
    /\ InitOvlVars
    /\ InitLossVars
    /\ srcTables \in [ExportTables -> TableStates]
NextExport == NextExpVars /\ UNCHANGED << execVars, cmpVars, anaVars, jobVars, connVars, valVars, ovlVars, lossVars >>
SpecExport == InitExport /\ [][NextExport]_vars

\* The record compatibility analyzer alone.
InitAnalyze ==
    /\ xAnalysis = [ee_modules_found |-> <<>>, ee_tables_found |-> <<>>,
                    foreign_key_dependencies |-> <<>>]
    /\ InitExecVars
    /\ InitCmpVars
    /\ InitExpVars
    /\ InitAnaVars
    /\ InitJobVars
    /\ InitConnVars
    /\ InitValVars
    /\ InitOvlVars
    /\ InitLossVars
    /\ srcTables = [t \in ExportTables |-> Absent]
NextAnalyze == NextAnaVars /\ UNCHANGED << execVars, cmpVars, expVars, jobVars, connVars, valVars, ovlVars, lossVars >>
SpecAnalyze == InitAnalyze /\ [][NextAnalyze]_vars

\* The job record alone: the requests of the four routes for one job.
InitJob ==
    /\ xAnalysis = [ee_modules_found |-> <<>>, ee_tables_found |-> <<>>,
                    foreign_key_dependencies |-> <<>>]
    /\ InitExecVars
    /\ InitCmpVars
    /\ InitExpVars
    /\ InitAnaVars
    /\ InitJobVars
    /\ InitConnVars
    /\ InitValVars
    /\ InitOvlVars
    /\ InitLossVars
    /\ srcTables = [t \in ExportTables |-> Absent]
NextJob == NextJobVars /\ UNCHANGED << execVars, cmpVars, expVars, anaVars, connVars, valVars, ovlVars, lossVars >>
SpecJob == InitJob /\ [][NextJob]_vars

\* The connections alone: saves, pool requests and configuration loads.
InitConn ==
    /\ xAnalysis = [ee_modules_found |-> <<>>, ee_tables_found |-> <<>>,
                    foreign_key_dependencies |-> <<>>]
    /\ InitExecVars
    /\ InitCmpVars
    /\ InitExpVars
    /\ InitAnaVars
    /\ InitJobVars
    /\ InitConnVars
    /\ InitValVars
    /\ InitOvlVars
    /\ InitLossVars
    /\ srcTables = [t \in ExportTables |-> Absent]
NextConn == NextConnVars /\ UNCHANGED << execVars, cmpVars, expVars, anaVars, jobVars, valVars, ovlVars, lossVars >>
SpecConn == InitConn /\ [][NextConn]_vars

\* The validator alone: runs of validateMigration for one job over a staging
\* database that does not change, and reads of the stored results.
InitValidate ==
    /\ xAnalysis = [ee_modules_found |-> <<>>, ee_tables_found |-> <<>>,
                    foreign_key_dependencies |-> <<>>]
    /\ InitExecVars
    /\ InitCmpVars
    /\ InitExpVars
    /\ InitAnaVars
    /\ InitJobVars
    /\ InitConnVars
    /\ vpc = "idle" /\ vStaging \in StagingStates /\ vFailed = {} /\ vFaults = 0
    /\ vRuns = 0 /\ checks = <<>> /\ validationRows = <<>>
    /\ vResult = NoResult /\ vGot = NoResult
    /\ InitOvlVars
    /\ InitLossVars
    /\ srcTables = [t \in ExportTables |-> Absent]
NextValidate == NextValVars /\ UNCHANGED << execVars, cmpVars, expVars, anaVars, jobVars, connVars, ovlVars, lossVars >>
SpecValidate == InitValidate /\ [][NextValidate]_vars

\* The exporter when no query and no file operation fails: every await of
\* exportModule resolves, and the function goes on with its next statement
\* (weak fairness of the step that is enabled).
NextExportNoError ==
    /\ \/ ExpStart
       \/ ExpInitCheckpoints
       \/ ExpGetCheckpoints
       \/ ExpLoopSkip
       \/ ExpLoopCall
       \/ ExpLoopEnd
       \/ ExpReadCheckpoint
       \/ ExpMarkInProgress
       \/ ExpGetSource(TRUE)
       \/ ExpTableExists(TRUE)
       \/ ExpTableCount(TRUE)
       \/ ExpBatch(TRUE)
       \/ ExpProgress
       \/ ExpTableDone
       \/ \E jsonSize \in JsonSizes : ExpWriteArtifact(TRUE, jsonSize)
       \/ ExpMarkCompleted
    /\ UNCHANGED << execVars, cmpVars, anaVars, jobVars, connVars, valVars, ovlVars, lossVars >>
SpecExportNoError == InitExport /\ [][NextExportNoError]_vars /\ WF_vars(NextExportNoError)

\* Two exportAllModules calls of one job, started at any time relative to
\* each other, over a source table of any of the modelled sizes.
InitOverlap ==
    /\ xAnalysis = [ee_modules_found |-> <<>>, ee_tables_found |-> <<>>,
                    foreign_key_dependencies |-> <<>>]
    /\ InitExecVars
    /\ InitCmpVars
    /\ InitExpVars
    /\ InitAnaVars
    /\ InitJobVars
    /\ InitConnVars
    /\ InitValVars
    /\ opc = [c \in Calls |-> "idle"] /\ oRow = NoRow /\ oFaults = 0
    /\ oCount \in TableStates \ {Absent}
    /\ oOffset = [c \in Calls |-> 0]
    /\ InitLossVars
    /\ srcTables = [t \in ExportTables |-> Absent]
NextOverlap == NextOvlVars /\ UNCHANGED << execVars, cmpVars, expVars, anaVars, jobVars, connVars, valVars, lossVars >>
SpecOverlap == InitOverlap /\ [][NextOverlap]_vars

\* The data-loss analysis alone: requests for the three tables, with any of
\* the queries of a table rejecting.
InitLoss ==
    /\ xAnalysis = [ee_modules_found |-> <<>>, ee_tables_found |-> <<>>,
                    foreign_key_dependencies |-> <<>>]
    /\ InitExecVars
    /\ InitCmpVars
    /\ InitExpVars
    /\ InitAnaVars
    /\ InitJobVars
    /\ InitConnVars
    /\ InitValVars
    /\ InitOvlVars
    /\ lpc = "idle" /\ lIdx = 0 /\ lResults = <<>> /\ lThrown = {} /\ lResponse = NoResponse
    /\ srcTables = [t \in ExportTables |-> Absent]
NextLoss == NextLossVars /\ UNCHANGED << execVars, cmpVars, expVars, anaVars, jobVars, connVars, valVars, ovlVars >>
SpecLoss == InitLoss /\ [][NextLoss]_vars

\* ========================================================================
\* Properties of the executor (checked under SpecExec)
\* ========================================================================

\* The statements of `sent` that are steps of the plan and were rejected.
FailedSends == { p \in 1..Len(sent) : sent[p].kind = "STEP" /\ ~sent[p].ok }

\* C1: in a live run, once the statement of step k has failed nothing but
\* ROLLBACK is sent to the staging connection (no statement of steps k+1..n),
\* and when the call returns the staging database is what it was when the
\* call started and no transaction is left open.
C1_FailedStepRollsBack ==
    /\ \A p \in FailedSends : \A q \in (p + 1)..Len(sent) : sent[q].kind = "ROLLBACK"
    /\ (xpc = "done" /\ FailedSends # {}) =>
          /\ stagingDb = dbAtStart
          /\ ~inTxn
          /\ ~xResult.success

\* C1 witness: a live run has returned whose step k > 1 failed after earlier
\* steps had changed the database inside the transaction, with steps left unsent.
C1_Witness ==
    /\ xpc = "done"
    /\ stagingDb = dbAtStart
    /\ \E p \in FailedSends : sent[p].step > 1 /\ sent[p].step < Len(xSteps)
    /\ sent[Len(sent)].kind = "ROLLBACK"

\* C2 (as claimed): a dry run sends no statement to the staging connection
\* and every step of the result has rows_affected = 0 and
\* execution_time_ms = 0.
C2_DryRunStepsAreZero ==
    (xpc = "done" /\ xResult.dry_run /\ xResult.success) =>
        /\ sent = <<>>
        /\ \A i \in 1..Len(xResult.steps) :
              /\ xResult.steps[i].rows_affected = 0
              /\ xResult.steps[i].execution_time_ms = 0

\* ========================================================================
\* Properties of the comparator (checked under SpecCompare)
\* ========================================================================

Categories == { "missing_in_target", "identical_records", "compatible_diff", "incompatible_diff" }

\* The table just probed was classified: its detail is the last one pushed.
HasLastDetail ==
    /\ cpc = "probed"
    /\ tableDetails # <<>>
    /\ tableDetails[Len(tableDetails)].tableName = cLast.tableName
LastDetail == tableDetails[Len(tableDetails)]

\* The details pushed for a table.
DetailsOf(tableName) == { j \in 1..Len(tableDetails) : tableDetails[j].tableName = tableName }

RequiredMissing ==
    IF cLast.fail = "nonNullProbe" THEN cLast.missingAll ELSE cLast.missingNonNull

C9_FailingTableOmittedErrorKept ==
    cpc = "done" =>
        /\ \A i \in 1..Len(cProbed) :
              (cProbed[i].populated /\ cProbed[i].fail = "none") =>
                  DetailsOf(cProbed[i].tableName) # {}
        /\ counters.tablesWithData =
              Cardinality({ i \in 1..Len(cProbed) : cProbed[i].populated /\ ~cProbed[i].threw
                                                     /\ cProbed[i].fail # "sourceCount" })
        /\ \A i \in 1..Len(cProbed) :
              cProbed[i].threw => DetailsOf(cProbed[i].tableName) # {}

\* C10 (as claimed): when the pass returns, every source table with at least
\* one row has exactly one detail, carrying one of the four categories.
C10_EveryPopulatedTableOnce ==
    cpc = "done" =>
        \A i \in 1..Len(cProbed) :
            cProbed[i].populated =>
                /\ Cardinality(DetailsOf(cProbed[i].tableName)) = 1
                /\ \A j \in DetailsOf(cProbed[i].tableName) : tableDetails[j].category \in Categories

\* C10 (amended): every source table with at least one row whose source count
\* query succeeds and whose probe does not throw has exactly one detail,
\* carrying one of the four categories; every other table has none.
C10_EveryProbedTableOnce ==
    cpc = "done" =>
        /\ Len(cProbed) = Len(sourceTables)
        /\ \A i \in 1..Len(cProbed) :
              LET classified == /\ cProbed[i].populated
                                /\ cProbed[i].fail # "sourceCount"
                                /\ ~cProbed[i].threw
              IN  /\ cProbed[i].tableName = sourceTables[i]
                  /\ Cardinality(DetailsOf(cProbed[i].tableName)) = (IF classified THEN 1 ELSE 0)
                  /\ \A j \in DetailsOf(cProbed[i].tableName) :
                        tableDetails[j].category \in Categories

\* C10 witness: a pass that classified both tables, in different categories.
C10_Witness ==
    /\ cpc = "done"
    /\ Len(tableDetails) = 2
    /\ tableDetails[1].category = "missing_in_target"
    /\ tableDetails[2].category = "compatible_diff"

\* ========================================================================
\* Properties of the exporter (checked under SpecExport)
\* ========================================================================

\* C5 (as claimed): within one pass of exportModule the records_exported
\* values written by the progress updates never decrease.
C5_ProgressNeverDecreases ==
    \A i \in 1..Len(ckptWrites) : \A j \in i..Len(ckptWrites) : ckptWrites[i] <= ckptWrites[j]

\* C6: a run sends no query to the source database for a module whose
\* checkpoint was completed when the run was called.
C6_NoReadsForCompleted ==
    \A m \in eDoneAtStart : srcReads[m] = 0

\* C6 witness: a second run has ended that skipped the completed module iot
\* and did read the source for voip.
C6_Witness ==
    /\ eRuns = 2
    /\ epc = "done"
    /\ eDoneAtStart = {"iot"}
    /\ srcReads["iot"] = 0
    /\ srcReads["voip"] > 0

\* The status changes a checkpoint row may make.
AllowedMoves ==
    { <<"none", "pending">>, <<"pending", "in_progress">>, <<"failed", "in_progress">>,
      <<"in_progress", "completed">>, <<"in_progress", "failed">> }

\* The modules the for-loop of the current run is past.
Passed == { i \in 1..Len(eSnapshot) : i < eLoop }

\* C7: a checkpoint only moves pending -> in_progress -> completed or
\* failed, and failed -> in_progress on a retry; a completed row never
\* changes; of the modules a run has passed, exactly those found not
\* completed were exported again; and every (re)export starts at the first
\* table with totalRecords 0 and reads each table from offset 0.
C7_CheckpointStateMachine ==
    [][ /\ \A m \in ModuleNames :
              /\ ckpt'[m].status # ckpt[m].status =>
                    <<ckpt[m].status, ckpt'[m].status>> \in AllowedMoves
              /\ ckpt[m].status = "completed" => ckpt'[m] = ckpt[m]
        /\ \A i \in 1..Len(eSnapshot') :
              i < eLoop' =>
                  (eSnapshot'[i].status # "completed" <=> eSnapshot'[i].module_name \in eAttempted')
        /\ (epc = "m_config" /\ epc' \in {"m_exists", "m_write"}) =>
              (eTable' = 1 /\ eTotal' = 0 /\ eData' = <<>>)
        /\ (epc = "m_count" /\ epc' \in {"m_batch", "m_tableDone"}) =>
              (eOffset' = 0 /\ eRecords' = <<>>)
      ]_vars

\* C7 witness: a retry of a module found failed reads its first table from
\* offset 0 although the checkpoint still holds the progress of the failed pass.
C7_Witness ==
    /\ eRuns = 2
    /\ epc = "m_batch"
    /\ eSnapshot[eLoop].status = "failed"
    /\ eTable = 1
    /\ eOffset = 0
    /\ ckpt[CurModule].records_exported > 0

LastResult ==
    IF aLast.list = "compatible"
    THEN compatibleDiffTables[Len(compatibleDiffTables)]
    ELSE incompatibleDiffTables[Len(incompatibleDiffTables)]

\* A fully at-risk result.
AtRisk(r) ==
    /\ r.ceCompatibleRecords = 0
    /\ r.eeOnlyRecords = r.totalRecords
    /\ r.percentageCompatible = Number(0)

\* Every table of the two lists has its result, in list order.
BatchComplete ==
    /\ Len(compatibleDiffTables) = Len(compatibleTables)
    /\ Len(incompatibleDiffTables) = Len(incompatibleTables)
    /\ \A i \in 1..Len(compatibleTables) : compatibleDiffTables[i].tableName = compatibleTables[i]
    /\ \A i \in 1..Len(incompatibleTables) :
          incompatibleDiffTables[i].tableName = incompatibleTables[i]
    /\ summary.totalTablesAnalyzed = Len(compatibleTables) + Len(incompatibleTables)

\* C11 (as claimed): whichever query issued for a table fails, the non-null
\* probe included, the table's result is fully at-risk, and the batch goes on.
C11_AnyFailureIsAtRisk ==
    /\ (aLast.list # "none" /\ (aLast.threw # "none" \/ aLast.fellBack)) => AtRisk(LastResult)
    /\ apc = "done" => BatchComplete

\* C11 (amended): a failing column listing, count or sample query makes the
\* table's result fully at-risk and the batch goes on to the remaining
\* tables; a failing non-null probe alone does not: the analysis continues
\* with every source column taken as holding data, and the result counts the
\* records that hold data in a missing column.
C11_ThrowingQueryIsAtRisk ==
    /\ (aLast.list # "none" /\ aLast.threw # "none") =>
          /\ AtRisk(LastResult)
          /\ LastResult.totalRecords = aLast.sourceRecordCount
    /\ (aLast.list # "none" /\ aLast.fellBack) =>
          /\ LastResult.eeOnlyRecords = aLast.rowsWithMissingData
          /\ LastResult.ceCompatibleRecords = aLast.sourceRecordCount - aLast.rowsWithMissingData
    /\ Len(aThrown) = Len(compatibleDiffTables) + Len(incompatibleDiffTables)
    /\ apc = "done" => BatchComplete

\* C11 witness: the analysis of orders threw, its result is fully at-risk,
\* and partners was then analyzed without error and found fully compatible.
C11_Witness ==
    /\ apc = "done"
    /\ aThrown[2] = "eeOnlyCount"
    /\ AtRisk(incompatibleDiffTables[1])
    /\ aThrown[3] = "none"
    /\ incompatibleDiffTables[2].percentageCompatible = Number(100)

\* C12: every incompatible_diff result satisfies
\* ceCompatibleRecords + eeOnlyRecords = totalRecords.
C12_CountsAddUp ==
    \A i \in 1..Len(incompatibleDiffTables) :
        LET r == incompatibleDiffTables[i] IN
        /\ r.category = "incompatible_diff"
        /\ r.ceCompatibleRecords + r.eeOnlyRecords = r.totalRecords

\* C12 witness: orders went through the counting path with some but not all
\* records holding data in a missing column, partners through the error path.
C12_Witness ==
    /\ apc = "done"
    /\ aThrown[2] = "none"
    /\ incompatibleDiffTables[1].eeOnlyRecords > 0
    /\ incompatibleDiffTables[1].ceCompatibleRecords > 0
    /\ aThrown[3] # "none"
    /\ incompatibleDiffTables[2].eeOnlyRecords = incompatibleDiffTables[2].totalRecords

\* C13 (as claimed): an incompatible_diff table whose missing columns are all
\* entirely null in the source gets percentageCompatible = 100.
C13_AllNullIsFullyCompatible ==
    (aLast.list = "incompatible" /\ aLast.missingAllNull) =>
        LastResult.percentageCompatible = Number(100)

\* C13 (amended): an incompatible_diff table whose missing columns are all
\* entirely null in the source gets percentageCompatible = 100 when none of
\* the column listing, count and sample queries issued for it fails (with or
\* without a failing non-null probe); when one does, it gets 0.
C13_AllNullIsFullyCompatibleUnlessThrown ==
    (aLast.list = "incompatible" /\ aLast.missingAllNull) =>
        /\ aLast.threw = "none" => LastResult.percentageCompatible = Number(100)
        /\ aLast.threw # "none" => LastResult.percentageCompatible = Number(0)

\* C13 witness: promo_code is missing from the target and entirely null in
\* the source; no query failed; the result is 100 with promo_code listed.
C13_Witness ==
    /\ aLast.list = "incompatible"
    /\ aLast.missingAllNull
    /\ aLast.missing = {"promo_code"}
    /\ aLast.threw = "none"
    /\ ~aLast.fellBack
    /\ LastResult.percentageCompatible = Number(100)
    /\ LastResult.missingColumns = <<"promo_code">>

\* ========================================================================
\* Properties of the planner (checked under SpecExec)
\* ========================================================================

\* The positions of the plan holding the drop-constraint step of fk, and the
\* drop-table step of a table.
DropConstraintSteps(fk) ==
    { i \in 1..Len(xSteps) :
        xSteps[i].sql_executed = Sql("ALTER TABLE DROP CONSTRAINT", <<fk.table_name, fk.constraint_name>>) }
DropTableSteps(table) ==
    { j \in 1..Len(xSteps) : xSteps[j].sql_executed = Sql("DROP TABLE", <<table>>) }

\* C14: in the plan of a call, every foreign key that references a detected
\* EE table T has a drop-constraint step, T has a drop-table step, and the
\* step number of the former is smaller than that of the latter.
C14_ConstraintDroppedBeforeTable ==
    xpc # "idle" =>
        \A k \in 1..Len(xAnalysis.foreign_key_dependencies) :
            LET fk == xAnalysis.foreign_key_dependencies[k] IN
            Includes(xAnalysis.ee_tables_found, fk.foreign_table_name) =>
                /\ DropConstraintSteps(fk) # {}
                /\ DropTableSteps(fk.foreign_table_name) # {}
                /\ \A i \in DropConstraintSteps(fk), j \in DropTableSteps(fk.foreign_table_name) :
                      xSteps[i].step_number < xSteps[j].step_number

\* C14 witness: helpdesk_ticket.team_id references the EE table helpdesk_team;
\* the plan drops that constraint and, later, the table.
C14_Witness ==
    /\ xpc = "done"
    /\ Includes(xAnalysis.foreign_key_dependencies, FkTeam)
    /\ Includes(xAnalysis.ee_tables_found, "helpdesk_team")
    /\ \E i \in DropConstraintSteps(FkTeam), j \in DropTableSteps("helpdesk_team") : i < j

\* The kind of a step, as its rank in the planning order.
KindRank(step) ==
    CASE step.sql_executed.text = "UPDATE ir_cron" -> 1
      [] step.sql_executed.text = "UPDATE base_automation" -> 2
      [] step.sql_executed.text = "UPDATE ir_module_module" -> 3
      [] step.sql_executed.text = "DELETE FROM ir_module_module_dependency" -> 4
      [] step.sql_executed.text = "DELETE FROM ir_ui_view" -> 5
      [] step.sql_executed.text = "DELETE FROM ir_ui_menu" -> 6
      [] step.sql_executed.text = "DELETE FROM ir_actions_act_window" -> 6
      [] step.sql_executed.text = "ALTER TABLE DROP CONSTRAINT" -> 7
      [] step.sql_executed.text = "DROP TABLE" -> 8
      [] step.sql_executed.text = "DELETE FROM ir_model_data" -> 9
      [] step.sql_executed.text = "DELETE FROM ir_model" -> 10
      [] step.sql_executed.text = "VACUUM ANALYZE" -> 11

\* C15: the steps of a plan are numbered 1..n in plan order, their kinds
\* follow the planning order (cron jobs, automations, uninstall, module
\* dependencies, views, menus and actions, constraints, tables, metadata
\* rows, model registry, maintenance), and the maintenance step is the last
\* step and the only one of its kind.
C15_FixedOrderOfKinds ==
    xpc # "idle" =>
        /\ \A i \in 1..Len(xSteps) : xSteps[i].step_number = i
        /\ \A i \in 1..(Len(xSteps) - 1) :
              KindRank(xSteps[i]) <= KindRank(xSteps[i + 1])
        /\ Len(xSteps) >= 1
        /\ \A i \in 1..Len(xSteps) : KindRank(xSteps[i]) = 11 <=> i = Len(xSteps)

\* C15 witness: a plan holding a step of every kind.
C15_Witness ==
    /\ xpc = "done"
    /\ { KindRank(xSteps[i]) : i \in 1..Len(xSteps) } = 1..11

\* The statements whose text interpolates a list of names between the
\* parentheses of IN (...): name IN (modules) twice, model IN (tables).
InListStatements ==
    { "UPDATE ir_module_module", "DELETE FROM ir_module_module_dependency",
      "DELETE FROM ir_model_data" }

\* C38: no planned step has a statement whose IN (...) list is empty,
\* whatever lists the analysis found (empty ones included).
C38_NoEmptyInList ==
    \A i \in 1..Len(xSteps) :
        xSteps[i].sql_executed.text \in InListStatements =>
            Len(xSteps[i].sql_executed.names) > 0

\* ========================================================================
\* Properties of the live run (checked under SpecExec)
\* ========================================================================

\* The positions of `sent` holding a statement of the plan, and those holding
\* a statement that ends the transaction.
StepSends == { p \in 1..Len(sent) : sent[p].kind = "STEP" }
EndSends  == { p \in 1..Len(sent) : sent[p].kind \in {"COMMIT", "ROLLBACK"} }

\* C16: the statements of a live run are, in this order: one BEGIN; the
\* statements of steps 1, 2, ..., k with none left out or repeated, each sent
\* only after the one before it succeeded; then COMMIT or ROLLBACK.  When the
\* call returns exactly one of COMMIT and ROLLBACK has succeeded, and COMMIT
\* only after all the steps.
C16_StatementsInPlanOrder ==
    /\ sent # <<>> =>
          /\ ~xDryRun
          /\ sent[1].kind = "BEGIN"
          /\ \A p \in 2..Len(sent) : sent[p].kind # "BEGIN"
          /\ \A p \in StepSends : sent[p].step = p - 1
          /\ \A p \in StepSends : p - 1 <= Len(xSteps)
          /\ \A p \in StepSends : \A q \in 1..(p - 1) : sent[q].ok
          /\ \A p \in EndSends : \A q \in (p + 1)..Len(sent) : q \in EndSends
          /\ \A p \in EndSends : sent[p].kind = "COMMIT" => p = Len(xSteps) + 2
    /\ (xpc = "done" /\ sent # <<>>) =>
          /\ Cardinality({ p \in EndSends : sent[p].ok }) = 1
          /\ sent[Len(sent)].ok
          /\ ~inTxn

\* C16 witness: every statement of a plan of at least eight steps was sent
\* in order, the last one was rejected, and the run ended with ROLLBACK.
C16_Witness ==
    /\ xpc = "done"
    /\ Len(xSteps) >= 8
    /\ Len(sent) = Len(xSteps) + 2
    /\ ~sent[Len(xSteps) + 1].ok
    /\ sent[Len(sent)].kind = "ROLLBACK"

\* The log ends with the rows of a run whose step k failed: running and
\* completed for steps 1..k-1, then running and failed for step k.
EndsWithFailedRun(log, k, elapsed) ==
    LET base == Len(log) - 2 * k IN
    /\ base >= 0
    /\ \A i \in 1..k :
          /\ log[base + 2 * i - 1].step_number = i
          /\ log[base + 2 * i - 1].status = "running"
          /\ log[base + 2 * i].step_number = i
          /\ log[base + 2 * i].status = (IF i < k THEN "completed" ELSE "failed")
          /\ i < k => log[base + 2 * i].execution_time_ms = elapsed
          /\ i = k => log[base + 2 * i].error_message = "statement failed"

StatusRank(status) ==
    CASE status = "pending"    -> 0
      [] status = "analyzing"  -> 1
      [] status = "exporting"  -> 2
      [] status = "migrating"  -> 3
      [] status = "validating" -> 4
      [] OTHER                 -> 5

\* C18: once the job exists, no step moves its persisted status to an
\* earlier state of pending -> analyzing -> exporting -> migrating ->
\* validating -> completed | failed | cancelled.
C18_StatusOnlyAdvances ==
    [][jobStatus # "none" => StatusRank(jobStatus') >= StatusRank(jobStatus)]_vars

\* C19: whenever a phase that wrote its in-progress status ends with an
\* error, the job's persisted status is failed from that step on (so the job
\* is not left in analyzing, exporting, migrating or validating).
C19_ErrorMarksJobFailed ==
    [][\A p \in Phases :
          (phase[p].pc = "active" /\ phase'[p].pc = "error") => jobStatus' = "failed"]_vars

\* C20: a status write never replaces a status that was set by a phase of
\* the job which started after the writing phase.
C20_NoOverwriteOfLaterPhase ==
    [][statusBy' >= statusBy]_vars

\* C37: the step in which the validate route receives the validation's
\* result writes completed when the overall status is pass and failed when
\* it is warning or fail.
C37_CompletedOnlyOnPass ==
    [][(phase["validate"].pc = "active" /\ validationResult' # NoValidation) =>
          /\ jobStatus' = "completed" <=> validationResult' = "pass"
          /\ validationResult' \in {"warning", "fail"} => jobStatus' = "failed"]_vars

\* C37 witness: a validation ended with overall status warning and the job
\* is failed, written by that validation.
C37_Witness ==
    /\ validationResult = "warning"
    /\ phase["validate"].pc = "error"
    /\ jobStatus = "failed"
    /\ statusBy = phase["validate"].started

\* ========================================================================
\* Properties of the source connection (checked under SpecExport)
\* ========================================================================

C27_OneLogRowPerStep ==
    xpc \in {"idle", "done"} =>
        \A i, j \in 1..Len(stepsLog) :
            i # j => stepsLog[i].step_number # stepsLog[j].step_number

CoversAllRows(batches, count) ==
    IF count = 0 THEN batches = <<>>
    ELSE /\ Len(batches) >= 1
         /\ batches[1].lo = 1
         /\ batches[Len(batches)].hi = count
         /\ \A k \in 1..Len(batches) : batches[k].lo <= batches[k].hi
         /\ \A k \in 1..(Len(batches) - 1) : batches[k + 1].lo = batches[k].hi + 1

\* C25: with an unchanging source, every artifact holds, for each table of
\* its module that exists in the source, every row of the table exactly
\* once in sort-key order (and an empty list for a table that does not
\* exist).
C25_ArtifactHoldsEveryRowOnce ==
    \A a \in artifacts :
        \A i \in 1..Len(ModuleConfig(a.module).tables) :
            LET tableName == ModuleConfig(a.module).tables[i]
            IN  /\ tableName \in DOMAIN a.tables
                /\ IF srcTables[tableName] = Absent
                   THEN a.tables[tableName] = <<>>
                   ELSE CoversAllRows(a.tables[tableName], srcTables[tableName])

\* C25 witness: an artifact with a table read in three batches and a table
\* read in one.
C25_Witness ==
    \E a \in artifacts :
        \E s, u \in DOMAIN a.tables :
            /\ Len(a.tables[s]) = 3
            /\ Len(a.tables[u]) = 1

\* C26: an artifact whose serialized size exceeds the threshold of
\* COMPRESSION_THRESHOLD_MB megabytes is stored gzip-compressed (path ending
\* in .json.gz), and one whose size is below the threshold is stored
\* uncompressed (path ending in .json).
C26_CompressedIffAboveThreshold ==
    \A a \in artifacts :
        /\ a.jsonSize > ThresholdBytes => (a.compressed /\ a.path[3] = ".json.gz")
        /\ a.jsonSize < ThresholdBytes => (~a.compressed /\ a.path[3] = ".json")

\* C26 witness: a compressed and an uncompressed artifact, of sizes just
\* above and just below the threshold.
C26_Witness ==
    /\ \E a \in artifacts : a.jsonSize = ThresholdBytes + 1 /\ a.compressed
    /\ \E a \in artifacts : a.jsonSize = ThresholdBytes - 1 /\ ~a.compressed

\* ========================================================================
\* Properties of the export of one module (checked under SpecExport)
\* ========================================================================

\* C31: when the existence test of a table answers that the table is not in
\* the source, that step records the table with no rows, adds nothing to the
\* record total, sends no further query for it (the existence test is the
\* only source query of the step and the loop moves on to the next table or
\* to the writing of the artifact), and leaves the checkpoint as it is.
C31_MissingTableIsSkipped ==
    [][(epc = "m_exists" /\ srcTables[CurTable] = Absent /\ epc' # "m_catch") =>
          /\ epc' \in {"m_exists", "m_write"}
          /\ eTable' = eTable + 1
          /\ CurTable \in DOMAIN eData'
          /\ eData'[CurTable] = <<>>
          /\ eTotal' = eTotal
          /\ srcReads'[CurModule] = srcReads[CurModule] + 1
          /\ ckpt' = ckpt]_vars

\* C31 witness: a completed module whose artifact holds a missing table
\* with no rows next to a table with rows.
C31_Witness ==
    \E a \in artifacts :
        /\ ckpt[a.module].status = "completed"
        /\ a.total_records > 0
        /\ \E tableName \in DOMAIN a.tables :
              srcTables[tableName] = Absent /\ a.tables[tableName] = <<>>

\* C34: every checkpoint row stored during an export has records_exported
\* at most total_records.
C34_ExportedAtMostTotal ==
    \A m \in ModuleNames :
        ckpt[m] # NoRow => ckpt[m].records_exported <= ckpt[m].total_records

\* ========================================================================
\* Properties of overlapping exports (checked under SpecOverlap)
\* ========================================================================

\* C33: once the checkpoint of a (job, module) is completed, no step of
\* either of two overlapping exportAllModules calls changes its status, its
\* file path or its counters.
C33_CompletedIsFinal ==
    [][oRow.status = "completed" =>
          /\ oRow'.status = oRow.status
          /\ oRow'.file_path = oRow.file_path
          /\ oRow'.records_exported = oRow.records_exported
          /\ oRow'.total_records = oRow.total_records]_vars

\* C35: a checkpoint whose status is completed has a file path and has
\* records_exported equal to total_records.
C35_CompletedHasFileAndAllRecords ==
    oRow.status = "completed" =>
        /\ oRow.file_path # NoPath
        /\ oRow.records_exported = oRow.total_records

\* ========================================================================
\* Properties of an export without errors (checked under SpecExportNoError)
\* ========================================================================

\* C39: when no query and no file operation fails, the paging loop of every
\* table that is being read comes to its end, and every exportAllModules
\* call that has started ends with every module checkpoint completed.
C39_ExportTerminatesCompleted ==
    /\ (epc = "m_batch") ~> (epc = "m_tableDone")
    /\ (epc = "init") ~>
          (epc = "done" /\ \A m \in ModuleNames : ckpt[m].status = "completed")

\* C39 witness: a call is over, all checkpoints are completed, and a table
\* that needed several batches was exported.
C39_Witness ==
    /\ epc = "done"
    /\ eFaults = 0
    /\ \A m \in ModuleNames : ckpt[m] # NoRow /\ ckpt[m].status = "completed"
    /\ \E a \in artifacts : \E tableName \in DOMAIN a.tables :
          Len(a.tables[tableName]) > 1

\* ========================================================================
\* Properties of the analyzer's counts (checked under SpecAnalyze)
\* ========================================================================

\* The three figures of one table result are within their ranges.
InRange(r) ==
    /\ 0 <= r.ceCompatibleRecords /\ r.ceCompatibleRecords <= r.totalRecords
    /\ 0 <= r.eeOnlyRecords /\ r.eeOnlyRecords <= r.totalRecords
    /\ r.percentageCompatible.den > 0
    /\ 0 <= r.percentageCompatible.num
    /\ r.percentageCompatible.num <= 100 * r.percentageCompatible.den

\* C36: in every table result of analyzeRecordCompatibility the compatible
\* and the EE-only record counts lie between 0 and totalRecords and the
\* percentage between 0 and 100, whatever the source table holds when the
\* analyzer counts in it.
C36_FiguresInRange ==
    /\ \A i \in 1..Len(compatibleDiffTables) : InRange(compatibleDiffTables[i])
    /\ \A i \in 1..Len(incompatibleDiffTables) : InRange(incompatibleDiffTables[i])

\* ========================================================================
\* Properties of the data-loss analysis (checked under SpecLoss)
\* ========================================================================

\* C32: when the request is answered, every requested table has its result
\* in the answer, the tables one of whose queries rejected included.
C32_OtherTablesStillReported ==
    lpc = "done" =>
        /\ lResponse.status = 200
        /\ { lResponse.analysis[i].tableName : i \in 1..Len(lResponse.analysis) }
              = Range(requestedTables)

\* ========================================================================
\* Properties of the connections (checked under SpecConn)
\* ========================================================================

\* C22: a connection id has at most one pool, which later calls return
\* again (its database never changes), and no pool is handed out for two
\* distinct databases, also when the stored configuration of the id is
\* changed between the calls.
C22_OnePoolOneDatabase ==
    [][\A id \in ConnIds :
          /\ odooPools[id] # NoPool => odooPools'[id].database = odooPools[id].database
          /\ Cardinality(odooPools'[id].usedFor) <= 1]_vars

\* C29: getConnectionConfig returns, for a saved connection, the password
\* that was handed to saveConnection.
C29_SaveLoadRoundTrip ==
    (lastLoad # NoLoad /\ dbConnections[lastLoad.connectionId] # NoConn) =>
        /\ ~lastLoad.threw
        /\ lastLoad.password = savedPassword[lastLoad.connectionId]

\* ========================================================================
\* Properties of the validator (checked under SpecValidate)
\* ========================================================================

\* The rule of the specification for a list of checks.
HasStatus(list, status) == \E i \in 1..Len(list) : list[i].status = status
RuleHolds(result) ==
    result.overall_status =
        IF HasStatus(result.checks, "fail") THEN "fail"
        ELSE IF HasStatus(result.checks, "warning") THEN "warning" ELSE "pass"

\* C23: the overall status is fail if any check of the result has status
\* fail, otherwise warning if any has status warning, otherwise pass, both in
\* the result returned by validateMigration and in the one rebuilt by
\* getValidationResults.
C23_OverallStatusRule ==
    /\ vResult # NoResult => RuleHolds(vResult)
    /\ vGot # NoResult => RuleHolds(vGot)

\* C23 witness: a returned result holding a failed, a warned and a passed
\* check, and a result rebuilt from the stored rows, both with status fail.
C23_Witness ==
    /\ vResult # NoResult
    /\ HasStatus(vResult.checks, "fail")
    /\ HasStatus(vResult.checks, "warning")
    /\ HasStatus(vResult.checks, "pass")
    /\ vResult.overall_status = "fail"
    /\ vGot # NoResult
    /\ vGot.overall_status = "fail"

\* C24: when the checks of a run are over there are eight results, in the
\* fixed order; a check whose query rejected has a warning or fail result
\* with records_found = -1, and every other check has the result its own
\* query gives, whatever other checks failed.
C24_EveryCheckReports ==
    vpc = "save" =>
        /\ Len(checks) = 8
        /\ \A i \in 1..8 :
              /\ checks[i].check_name = VALIDATION_CHECKS[i].check_name
              /\ i \in vFailed =>
                    checks[i].status \in {"warning", "fail"} /\ checks[i].records_found = 0 - 1
              /\ i \notin vFailed =>
                    /\ checks[i].records_found = vStaging[i]
                    /\ checks[i].status = "pass" <=>
                          (IF i = 8 THEN vStaging[i] > 0 ELSE vStaging[i] = 0)

\* C24 witness: a run in which the first and another check failed and the
\* last check still passed.
C24_Witness ==
    /\ vpc = "save"
    /\ 1 \in vFailed
    /\ Cardinality(vFailed) = 2
    /\ 8 \notin vFailed
    /\ checks[8].status = "pass"

\* C28: between runs the stored validation results hold exactly one row per
\* check, and that row is the check's result in the most recent run.
C28_OneRowPerCheck ==
    (vpc = "idle" /\ vResult # NoResult) =>
        \A i \in CheckIds :
            /\ Cardinality({ r \in 1..Len(validationRows) :
                   validationRows[r].check_name = VALIDATION_CHECKS[i].check_name }) = 1
            /\ \E r \in 1..Len(validationRows) : validationRows[r] = vResult.checks[i]

====
